---- MODULE Spec2Model ----
(***************************************************************************)
(* Incident lifecycle of the network & sensor monitor.                     *)
(*                                                                         *)
(*   IncidentDetector   src/src/utils/incident_detector.py                 *)
(*   Database           src/src/models/database.py (incidents table)       *)
(*   NetworkMonitorApp  src/src/monitor.py (check loops, stop)             *)
(*                                                                         *)
(* The specifications share the state:                                     *)
(*   Spec           the detector's operations called one at a time;        *)
(*   SpecConc       two callers inside process_incident, interleaved at    *)
(*                  the statements;                                        *)
(*   SpecApp        the check-loop threads and the main thread in stop();  *)
(*   SpecStore      one caller, store writes that fail, retention cleanup; *)
(*   SpecReconcile  check_and_resolve_incidents over three keys;           *)
(*   SpecLoops      the three check loops, one iteration per step;         *)
(*   SpecClassify   the classifiers;                                       *)
(*   SpecAnalytics  the analytics functions over stored rows;              *)
(*   SpecLock       threads inside the Database's incident writes;         *)
(*   SpecClose      two callers inside resolve_incident, interleaved at    *)
(*                  the statements;                                        *)
(*   SpecTerm       the check loops and stop() under fair scheduling.      *)
(*                                                                         *)
(* Modelling conventions.  Time is datetime.utcnow() in ticks of           *)
(* 1/TicksPerSec second and is taken to be non-decreasing.  A dedup key,   *)
(* the string type + ":" + json.dumps(sorted(targets)), is the pair        *)
(* <<type, sorted targets>>: incident types hold no colon and json.dumps   *)
(* is injective on lists of strings, so two key strings are equal exactly  *)
(* when the pairs are.  A Text column holds NULL (None), the JSON document *)
(* of a value (<<"list", l>>, <<"number", n>>) or text that is not JSON    *)
(* (<<"text", s>>).                                                        *)
(***************************************************************************)
EXTENDS Integers, Sequences, FiniteSets, TLC

VARIABLES
    incidents,          \* Database: the incidents table, id -> row
    active_incidents,   \* IncidentDetector.active_incidents, insertion-ordered dict
    now,                \* the clock read by datetime.utcnow(), in ticks
    running,            \* NetworkMonitorApp.running
    current_state,      \* NetworkMonitorApp.current_state ("wifi", "gateway")
    pc,                 \* per thread: position in its code
    loc,                \* per thread: local variables of the running call
    lastCall,           \* the result of the last process_incident call
    preexisting,        \* ids of the rows the store held at construction
    classified,         \* the last classifier or analytics call: function, arguments, result
    db_lock             \* Database._lock: None, or the thread that holds it

vars == <<incidents, active_incidents, now, running, current_state, pc, loc,
          lastCall, preexisting, classified, db_lock>>

----
\* Bounds of the model.

MaxIncidents == 2
MaxTime == 0
MaxStates == 2
Later == 601
TicksPerSec == 2

\* Optional values (None / NULL): the empty tuple, or the 1-tuple of the value.
None == <<>>

Some(v) == <<v>>

Val(o) == o[1]

\* Clock values: the first ticks, and one some 300 s later.
Times == (0 .. MaxTime) \cup {Later}

----
\* Python helpers.

\* String order of the target identifiers used (Python compares str by code point).
TargetOrder == <<"gw", "s1", "s2", "t1", "t2", "wlan0">>

Rank(t) == CHOOSE i \in 1 .. Len(TargetOrder) : TargetOrder[i] = t

RECURSIVE InsertSorted(_, _)
InsertSorted(x, s) ==
    IF s = <<>> THEN <<x>>
    ELSE IF Rank(x) <= Rank(Head(s)) THEN <<x>> \o s
    ELSE <<Head(s)>> \o InsertSorted(x, Tail(s))

\* The list in the order given.
listed_order(s) == s

\* sorted(list)
RECURSIVE sorted(_)
sorted(s) == IF s = <<>> THEN <<>> ELSE InsertSorted(Head(s), sorted(Tail(s)))

Range(s) == {s[i] : i \in 1 .. Len(s)}

\* dict, insertion-ordered: a sequence of [key, id] entries with distinct keys.
DictKeys(d) == [i \in 1 .. Len(d) |-> d[i].key]

DictHas(d, k) == \E i \in 1 .. Len(d) : d[i].key = k

DictGet(d, k) == d[CHOOSE i \in 1 .. Len(d) : d[i].key = k].id

DictSet(d, k, v) ==
    IF DictHas(d, k)
    THEN [i \in 1 .. Len(d) |-> IF d[i].key = k THEN [key |-> k, id |-> v] ELSE d[i]]
    ELSE Append(d, [key |-> k, id |-> v])

DictDel(d, k) == SelectSeq(d, LAMBDA e : e.key # k)

\* json.dumps(list): the JSON document of the list, in the order given.
json_dumps(l) == <<"list", l>>

\* json.loads(text): Some(value) of a JSON document; None when it raises
\* (TypeError for NULL, JSONDecodeError for text that is not JSON).
json_loads(text) ==
    IF text # None /\ text[1] \in {"list", "number"} THEN Some(text[2]) ELSE None

----
\* Database (incidents table).

\* INTEGER PRIMARY KEY without AUTOINCREMENT: SQLite assigns max(rowid) + 1.
NextId(db) ==
    IF DOMAIN db = {} THEN 1
    ELSE (CHOOSE m \in DOMAIN db : \A i \in DOMAIN db : i <= m) + 1

\* Incident(**kwargs): columns not given are NULL.
NewRow(kw) ==
    [start_time |-> kw.start_time,
     end_time |-> None,
     duration_seconds |-> None,
     incident_type |-> kw.incident_type,
     severity |-> kw.severity,
     affected_targets |-> kw.affected_targets,
     description |-> kw.description,
     probable_cause |-> kw.probable_cause,
     is_resolved |-> kw.is_resolved]

add_incident(db, kw) ==
    LET id == NextId(db)
    IN [db |-> [i \in DOMAIN db \cup {id} |-> IF i = id THEN NewRow(kw) ELSE db[i]],
        id |-> id]

\* setattr for every keyword given; a missing row is left alone.
update_incident(db, id, kw) ==
    IF id \in DOMAIN db
    THEN [db EXCEPT ![id] =
            [f \in DOMAIN db[id] |-> IF f \in DOMAIN kw THEN kw[f] ELSE db[id][f]]]
    ELSE db

get_active_incidents(db) == {i \in DOMAIN db : db[i].is_resolved = FALSE}

----
\* IncidentDetector: the lifecycle operations, each as one whole call made at
\* clock value t on store db and index idx.

\* A key built from the targets alone.
incident_key_targets_only(d) == <<"", sorted(d.affected_targets)>>

\* f"{incident_type}:{json.dumps(sorted(affected_targets))}"
incident_key(d) == <<d.incident_type, sorted(d.affected_targets)>>

\* Rounding to the nearest second instead of truncating.
int_seconds_rounded(ticks) == (2 * ticks + TicksPerSec) \div (2 * TicksPerSec)

\* int(timedelta.total_seconds()): truncation toward zero.
int_seconds(ticks) ==
    IF ticks >= 0 THEN ticks \div TicksPerSec ELSE 0 - ((0 - ticks) \div TicksPerSec)

\* new_incident_kw that does not pass the probable cause on.
new_incident_kw_no_cause(d, t) ==
    [start_time |-> t,
     incident_type |-> d.incident_type,
     severity |-> d.severity,
     affected_targets |-> json_dumps(d.affected_targets),
     description |-> d.description,
     probable_cause |-> None,
     is_resolved |-> FALSE]

\* The keyword arguments process_incident passes to add_incident.
new_incident_kw(d, t) ==
    [start_time |-> t,
     incident_type |-> d.incident_type,
     severity |-> d.severity,
     affected_targets |-> json_dumps(d.affected_targets),
     description |-> d.description,
     probable_cause |-> d.probable_cause,
     is_resolved |-> FALSE]

\* process_incident without the membership test: every call opens a row.
process_incident_always_new(db, idx, d, t) ==
    LET a == add_incident(db, new_incident_kw(d, t))
    IN [db |-> a.db, idx |-> DictSet(idx, incident_key(d), a.id), ret |-> a.id,
        isnew |-> TRUE]

\* process_incident that, on a continuation, writes the descriptor's severity
\* and probable cause to the open row.
process_incident_refreshing(db, idx, d, t) ==
    LET key == incident_key(d)
    IN IF DictHas(idx, key)
       THEN [db |-> update_incident(db, DictGet(idx, key),
                                    [severity |-> d.severity,
                                     probable_cause |-> d.probable_cause]),
             idx |-> idx, ret |-> DictGet(idx, key), isnew |-> FALSE]
       ELSE LET a == add_incident(db, new_incident_kw(d, t))
            IN [db |-> a.db, idx |-> DictSet(idx, key, a.id), ret |-> a.id,
                isnew |-> TRUE]

process_incident(db, idx, d, t) ==
    LET key == incident_key(d)
    IN IF DictHas(idx, key)
       THEN [db |-> db, idx |-> idx, ret |-> DictGet(idx, key), isnew |-> FALSE]
       ELSE LET a == add_incident(db, new_incident_kw(d, t))
            IN [db |-> a.db, idx |-> DictSet(idx, key, a.id), ret |-> a.id,
                isnew |-> TRUE]

\* The keyword arguments resolve_incident passes to update_incident: with the
\* row found among the unresolved ones, and with it not found.
\* resolve_kw that never sets the duration.
resolve_kw_no_duration(found, start_time, end_time) ==
    [end_time |-> Some(end_time), is_resolved |-> TRUE]

resolve_kw(found, start_time, end_time) ==
    IF found
    THEN [end_time |-> Some(end_time),
          duration_seconds |-> Some(int_seconds(end_time - start_time)),
          is_resolved |-> TRUE]
    ELSE [end_time |-> Some(end_time), is_resolved |-> TRUE]

\* Lookup in get_active_incidents(), then update_incident.
resolve_update(db, id, t) ==
    LET found == id \in get_active_incidents(db)
    IN update_incident(db, id, resolve_kw(found, IF found THEN db[id].start_time ELSE 0, t))

\* resolve_incident that, for a key that is not open, closes the unresolved rows
\* of that key it finds in the store.
resolve_incident_by_store(db, idx, key, t) ==
    IF DictHas(idx, key)
    THEN [db |-> resolve_update(db, DictGet(idx, key), t), idx |-> DictDel(idx, key)]
    ELSE [db |-> [i \in DOMAIN db |->
                    IF /\ db[i].incident_type = key[1]
                       /\ sorted(Val(json_loads(db[i].affected_targets))) = key[2]
                       /\ ~db[i].is_resolved
                    THEN [db[i] EXCEPT !.is_resolved = TRUE, !.end_time = Some(t)]
                    ELSE db[i]],
          idx |-> idx]

\* resolve_incident that keeps the key when the lookup does not find the row.
resolve_incident_keep_missing(db, idx, key, t) ==
    IF DictHas(idx, key)
    THEN [db |-> resolve_update(db, DictGet(idx, key), t),
          idx |-> IF DictGet(idx, key) \in get_active_incidents(db)
                  THEN DictDel(idx, key) ELSE idx]
    ELSE [db |-> db, idx |-> idx]

\* resolve_incident that drops the key and leaves the row unresolved.
resolve_incident_index_only(db, idx, key, t) == [db |-> db, idx |-> DictDel(idx, key)]

\* resolve_incident without line 203: the key stays in the index.
resolve_incident_keep_key(db, idx, key, t) ==
    IF DictHas(idx, key)
    THEN [db |-> resolve_update(db, DictGet(idx, key), t), idx |-> idx]
    ELSE [db |-> db, idx |-> idx]

resolve_incident(db, idx, key, t) ==
    IF DictHas(idx, key)
    THEN [db |-> resolve_update(db, DictGet(idx, key), t), idx |-> DictDel(idx, key)]
    ELSE [db |-> db, idx |-> idx]

\* resolve_incident for each key of a list, in order.
RECURSIVE resolve_all(_, _, _, _)
resolve_all(db, idx, keys, t) ==
    IF keys = <<>> THEN [db |-> db, idx |-> idx]
    ELSE LET r == resolve_incident(db, idx, Head(keys), t)
         IN resolve_all(r.db, r.idx, Tail(keys), t)

\* check_and_resolve_incidents that closes only the keys missing from
\* current_states, and keeps a key mapped to False.
check_and_resolve_incidents_missing_only(db, idx, current_states, t) ==
    resolve_all(db, idx,
                SelectSeq(DictKeys(idx), LAMBDA k : k \notin DOMAIN current_states), t)

\* current_states: a dict key -> bool, given as a function on a set of keys.
check_and_resolve_incidents(db, idx, current_states, t) ==
    LET to_resolve ==
            SelectSeq(DictKeys(idx),
                      LAMBDA k : k \notin DOMAIN current_states \/ ~current_states[k])
    IN resolve_all(db, idx, to_resolve, t)

\* NetworkMonitorApp.stop, the force-close of every open incident.
stop_resolve(db, idx, t) == resolve_all(db, idx, DictKeys(idx), t)

----
\* Inputs of the detector-level specifications.

Desc(ty, sev, targets, description, cause) ==
    [incident_type |-> ty, severity |-> sev, description |-> description,
     affected_targets |-> targets, probable_cause |-> cause]

\* Descriptors: two that share a key and differ in severity and cause, one that
\* differs from them in its targets only, one that differs in its type only.
Descriptors ==
    {Desc("sensor_outage", "info", <<"s1">>, <<"Sensor unavailable", "s1">>,
          Some("WiFi/network connectivity issue")),
     Desc("sensor_outage", "warning", <<"s1">>, <<"Sensor unavailable", "s1">>,
          Some("Sensor-specific issue")),
     Desc("sensor_outage", "warning", <<"s2">>, <<"Sensor unavailable", "s2">>,
          Some("Sensor-specific issue")),
     Desc("wifi_outage", "critical", <<"s1">>, <<"WiFi interface disconnected", "s1">>, None)}

Keys == {incident_key(d) : d \in Descriptors}

\* The current_states dicts given to check_and_resolve_incidents.
CurrentStates ==
    UNION {[S -> BOOLEAN] : S \in {S \in SUBSET Keys : Cardinality(S) <= MaxStates}}

NoDesc ==
    [incident_type |-> "", severity |-> "", description |-> <<>>,
     affected_targets |-> <<>>, probable_cause |-> None]

NoKey == <<"", <<>>>>

\* Stores a new process can find: empty, or one unresolved row left behind by an
\* earlier process that stopped without closing it.
StaleDescriptors == {d \in Descriptors : d.severity = "info"}

InitialStores ==
    {<<>>} \cup {<<NewRow(new_incident_kw(d, 0))>> : d \in StaleDescriptors}

----
\* Threads.

LoopThreads == {"wifi", "net"}

Callers == {"c1", "c2"}

\* The thread of the one configured sensor, where sensors are configured.
SensorThreads == {"sensor"}

Threads == LoopThreads \cup SensorThreads \cup Callers \cup {"main"}

\* The locals of a thread's running call; wasopen records whether the key was
\* in the index when process_incident was entered, waited whether the Database
\* lock was held when a Database method was entered.
NoLoc ==
    [desc |-> NoDesc, key |-> NoKey, id |-> 0, end_time |-> 0, found |-> FALSE,
     start_time |-> 0, keys |-> <<>>, ret |-> None, wasopen |-> FALSE,
     waited |-> FALSE]

\* What the last process_incident call returned, and whether it opened a row.
Call(r, isnew) == [ret |-> r, isnew |-> isnew]

\* No classifier call recorded.
NoCheck == [fn |-> "", args |-> <<>>, result |-> None]

InitCommon ==
    /\ classified = NoCheck
    /\ db_lock = None
    /\ incidents \in InitialStores
    /\ preexisting = DOMAIN incidents
    /\ active_incidents = <<>>
    /\ now = 0
    /\ current_state = [wifi |-> None, gateway |-> None]
    /\ loc = [t \in Threads |-> NoLoc]
    /\ lastCall = Call(None, FALSE)

\* datetime.utcnow() advances.
Tick ==
    /\ \E t \in Times : t > now /\ now' = t
    /\ UNCHANGED <<db_lock, classified, incidents, active_incidents, running, current_state, pc, loc,
                   lastCall, preexisting>>

----
\* Spec: the operations called one at a time.

Init ==
    /\ InitCommon
    /\ running = TRUE
    /\ pc = [t \in Threads |-> "idle"]

ProcessIncident(d) ==
    LET r == process_incident(incidents, active_incidents, d, now)
    IN /\ DictHas(active_incidents, incident_key(d))
            \/ Cardinality(DOMAIN incidents) < MaxIncidents
       /\ incidents' = r.db
       /\ active_incidents' = r.idx
       /\ lastCall' = Call(Some(r.ret), r.isnew)
       /\ UNCHANGED <<db_lock, classified, now, running, current_state, pc, loc, preexisting>>

ResolveIncident(key) ==
    LET r == resolve_incident(incidents, active_incidents, key, now)
    IN /\ incidents' = r.db
       /\ active_incidents' = r.idx
       /\ UNCHANGED <<db_lock, classified, now, running, current_state, pc, loc, lastCall, preexisting>>

CheckAndResolveIncidents(current_states) ==
    LET r == check_and_resolve_incidents(incidents, active_incidents, current_states, now)
    IN /\ incidents' = r.db
       /\ active_incidents' = r.idx
       /\ UNCHANGED <<db_lock, classified, now, running, current_state, pc, loc, lastCall, preexisting>>

Stop ==
    LET r == stop_resolve(incidents, active_incidents, now)
    IN /\ running' = FALSE
       /\ incidents' = r.db
       /\ active_incidents' = r.idx
       /\ UNCHANGED <<db_lock, classified, now, current_state, pc, loc, lastCall, preexisting>>

Next ==
    \/ Tick
    \/ \E d \in Descriptors : ProcessIncident(d)
    \/ \E k \in Keys : ResolveIncident(k)
    \/ \E cs \in CurrentStates : CheckAndResolveIncidents(cs)
    \/ Stop

Spec == Init /\ [][Next]_vars

----
\* Incident classifiers.  A description is the pair <<text, value formatted in>>.

PacketLossLimit == 20

check_wifi_status(wifi_data, rssi_critical) ==
    IF ~wifi_data.is_connected
    THEN Desc("wifi_outage", "critical", <<wifi_data.interface>>,
              <<"WiFi interface disconnected", wifi_data.interface>>, None)
    ELSE IF /\ wifi_data.rssi # None
            /\ Val(wifi_data.rssi) # 0
            /\ Val(wifi_data.rssi) < rssi_critical
    THEN Desc("wifi_degradation", "warning", <<wifi_data.interface>>,
              <<"WiFi signal weak", Val(wifi_data.rssi)>>, None)
    ELSE NoDesc

\* check_network_connectivity that tests the internet targets before the gateway.
check_network_connectivity_internet_first(gateway_result, internet_results) ==
    IF ~\E i \in 1 .. Len(internet_results) : internet_results[i].is_reachable
    THEN Desc("internet_outage", "warning",
              [i \in 1 .. Len(internet_results) |-> internet_results[i].target],
              <<"Internet connectivity lost (gateway reachable)", "">>, None)
    ELSE IF ~gateway_result.is_reachable
    THEN Desc("wifi_outage", "critical", <<gateway_result.target>>,
              <<"Gateway unreachable", gateway_result.target>>, None)
    ELSE NoDesc

check_network_connectivity(gateway_result, internet_results) ==
    LET gateway_reachable == gateway_result.is_reachable
        internet_reachable ==
            \E i \in 1 .. Len(internet_results) : internet_results[i].is_reachable
    IN IF ~gateway_reachable
       THEN Desc("wifi_outage", "critical", <<gateway_result.target>>,
                 <<"Gateway unreachable", gateway_result.target>>, None)
       ELSE IF gateway_reachable /\ ~internet_reachable
       THEN Desc("internet_outage", "warning",
                 [i \in 1 .. Len(internet_results) |-> internet_results[i].target],
                 <<"Internet connectivity lost (gateway reachable)", "">>, None)
       ELSE IF gateway_result.packet_loss > PacketLossLimit
       THEN Desc("wifi_degradation", "warning", <<gateway_result.target>>,
                 <<"High packet loss to gateway", gateway_result.packet_loss>>, None)
       ELSE NoDesc

\* check_sensor_status that blames the network only when WiFi and gateway are
\* both down.
check_sensor_status_both_down(sensor_check, wifi_ok, gateway_ok) ==
    IF sensor_check.is_available THEN NoDesc
    ELSE IF ~wifi_ok /\ ~gateway_ok
    THEN Desc("sensor_outage", "info", <<sensor_check.sensor_name>>,
              <<"Sensor unavailable", sensor_check.sensor_name>>,
              Some("WiFi/network connectivity issue (correlated with WiFi/gateway outage)"))
    ELSE Desc("sensor_outage", "warning", <<sensor_check.sensor_name>>,
              <<"Sensor unavailable", sensor_check.sensor_name>>,
              Some("Sensor-specific issue (WiFi and gateway are operational)"))

check_sensor_status(sensor_check, wifi_ok, gateway_ok) ==
    IF sensor_check.is_available THEN NoDesc
    ELSE IF ~wifi_ok \/ ~gateway_ok
    THEN Desc("sensor_outage", "info", <<sensor_check.sensor_name>>,
              <<"Sensor unavailable", sensor_check.sensor_name>>,
              Some("WiFi/network connectivity issue (correlated with WiFi/gateway outage)"))
    ELSE Desc("sensor_outage", "warning", <<sensor_check.sensor_name>>,
              <<"Sensor unavailable", sensor_check.sensor_name>>,
              Some("Sensor-specific issue (WiFi and gateway are operational)"))

----
\* Properties of Spec.

\* The dedup key of a stored row.
RowKey(row) == <<row.incident_type, sorted(Val(json_loads(row.affected_targets)))>>

Unresolved(k) ==
    {i \in DOMAIN incidents : ~incidents[i].is_resolved /\ RowKey(incidents[i]) = k}

\* d is (end - start) in whole seconds, truncated.
WholeSeconds(d, start, end) ==
    /\ d >= 0
    /\ d * TicksPerSec <= end - start
    /\ end - start < (d + 1) * TicksPerSec

\* C1: a process_incident call for a key that is open changes neither the store
\* nor the index and returns the id the index holds; every call leaves the key
\* open under the id it returned and adds at most one row.  So N calls in a row
\* for one key persist one row and return one id.
C1_IdempotentContinuation ==
    [][\A d \in Descriptors :
          ProcessIncident(d) =>
            LET k == incident_key(d)
            IN /\ DictHas(active_incidents, k) =>
                    /\ incidents' = incidents
                    /\ active_incidents' = active_incidents
                    /\ lastCall'.ret = Some(DictGet(active_incidents, k))
               /\ DictHas(active_incidents', k)
               /\ lastCall'.ret = Some(DictGet(active_incidents', k))
               /\ Cardinality(DOMAIN incidents') <= Cardinality(DOMAIN incidents) + 1]_vars

\* A continuation has returned the id of a row that is still open.
C1_Witness ==
    /\ lastCall.ret # None
    /\ ~lastCall.isnew
    /\ \E i \in 1 .. Len(active_incidents) : Some(active_incidents[i].id) = lastCall.ret

\* C3 as stated: at most one unresolved row per key in the whole store, and the
\* index maps the key to it.
C3_OneOpenPerKey ==
    \A k \in Keys :
        /\ Cardinality(Unresolved(k)) <= 1
        /\ Unresolved(k) # {} =>
              DictHas(active_incidents, k) /\ DictGet(active_incidents, k) \in Unresolved(k)

\* C3 amended: at most one unresolved row per key among the rows this detector
\* created, and the index maps the key to it.
C3_OneOwnOpenPerKey ==
    \A k \in Keys :
        LET own == Unresolved(k) \ preexisting
        IN /\ Cardinality(own) <= 1
           /\ own # {} =>
                 DictHas(active_incidents, k) /\ DictGet(active_incidents, k) \in own

\* A key is open in the index while an earlier process's row of the same key is
\* unresolved in the store.
C3_Witness ==
    \E k \in Keys :
        /\ DictHas(active_incidents, k)
        /\ Unresolved(k) \ preexisting # {}
        /\ Unresolved(k) \cap preexisting # {}

\* C29: a detector constructed over a store that holds unresolved rows starts
\* with an empty index; no process_incident, resolve_incident,
\* check_and_resolve_incidents or stop of that detector changes one of those
\* rows, which stay unresolved; and a process_incident for the key of one of
\* them that is not in the index adds a second unresolved row of that key.
C29_RestartLosesOpen ==
    /\ active_incidents = <<>>
    /\ [](\A i \in preexisting : i \in DOMAIN incidents /\ ~incidents[i].is_resolved)
    /\ [][/\ \A i \in preexisting : i \in DOMAIN incidents' /\ incidents'[i] = incidents[i]
          /\ \A d \in Descriptors :
                (/\ ProcessIncident(d)
                 /\ ~DictHas(active_incidents, incident_key(d))
                 /\ Unresolved(incident_key(d)) \cap preexisting # {}) =>
                    \E i \in DOMAIN incidents' \ DOMAIN incidents :
                        /\ ~incidents'[i].is_resolved
                        /\ RowKey(incidents'[i]) = incident_key(d)
                        /\ active_incidents' = DictSet(active_incidents, incident_key(d), i)
                        /\ \E j \in preexisting :
                              /\ j # i
                              /\ ~incidents'[j].is_resolved
                              /\ RowKey(incidents'[j]) = incident_key(d)]_vars

\* The detector has opened and closed an incident of its own on the key of an
\* earlier process's row, and has stopped; the earlier row is unresolved.
C29_Witness ==
    \E k \in Keys :
        /\ ~running
        /\ ~DictHas(active_incidents, k)
        /\ Unresolved(k) \cap preexisting # {}
        /\ \E i \in DOMAIN incidents \ preexisting :
              RowKey(incidents[i]) = k /\ incidents[i].is_resolved

\* C5: a row is resolved exactly when end_time and duration_seconds are both
\* set, and a resolved row's duration is end_time - start_time in whole seconds,
\* not negative.
C5_OpenClosePairing ==
    \A i \in DOMAIN incidents :
        LET row == incidents[i]
        IN /\ row.is_resolved <=> (row.end_time # None /\ row.duration_seconds # None)
           /\ row.is_resolved =>
                 WholeSeconds(Val(row.duration_seconds), row.start_time, Val(row.end_time))

\* A row resolved after a whole number of seconds and a fraction.
C5_Witness ==
    \E i \in DOMAIN incidents :
        /\ incidents[i].is_resolved
        /\ incidents[i].duration_seconds # None
        /\ Val(incidents[i].duration_seconds) > 0
        /\ (Val(incidents[i].end_time) - incidents[i].start_time) % TicksPerSec # 0

\* C9: resolve_incident on an open key whose row is in the store, at a time not
\* before the row's start, leaves the row resolved with end_time = now and
\* duration = now - start_time in whole seconds (300 for a difference of 300 s
\* and a fraction), and the key out of the index.
C9_CloseResult ==
    [][\A k \in Keys :
          (/\ ResolveIncident(k)
           /\ DictHas(active_incidents, k)
           /\ DictGet(active_incidents, k) \in DOMAIN incidents
           /\ now >= incidents[DictGet(active_incidents, k)].start_time) =>
            LET id == DictGet(active_incidents, k)
                row == incidents'[id]
                ticks == now - incidents[id].start_time
            IN /\ row.is_resolved = TRUE
               /\ row.end_time = Some(now)
               /\ row.duration_seconds # None
               /\ WholeSeconds(Val(row.duration_seconds), incidents[id].start_time, now)
               /\ (300 * TicksPerSec <= ticks /\ ticks < 301 * TicksPerSec) =>
                     row.duration_seconds = Some(300)
               /\ ~DictHas(active_incidents', k)]_vars

\* A row opened at 0 has been closed 300 s later and its key is not open.
C9_Witness ==
    \E i \in DOMAIN incidents \ preexisting :
        /\ incidents[i].is_resolved
        /\ incidents[i].duration_seconds = Some(300)
        /\ ~DictHas(active_incidents, RowKey(incidents[i]))

\* C10: process_incident for a key that is not open persists exactly one row,
\* with start_time = now, unresolved, end_time and duration_seconds NULL and the
\* descriptor's type, severity, description and probable cause; the index maps
\* the key to the row's id, which is the value returned.
C10_OpenNewKey ==
    [][\A d \in Descriptors :
          (ProcessIncident(d) /\ ~DictHas(active_incidents, incident_key(d))) =>
            \E id \in DOMAIN incidents' \ DOMAIN incidents :
                /\ DOMAIN incidents' = DOMAIN incidents \cup {id}
                /\ \A i \in DOMAIN incidents : incidents'[i] = incidents[i]
                /\ incidents'[id].start_time = now
                /\ incidents'[id].is_resolved = FALSE
                /\ incidents'[id].end_time = None
                /\ incidents'[id].duration_seconds = None
                /\ incidents'[id].incident_type = d.incident_type
                /\ incidents'[id].severity = d.severity
                /\ incidents'[id].description = d.description
                /\ incidents'[id].probable_cause = d.probable_cause
                /\ DictHas(active_incidents', incident_key(d))
                /\ DictGet(active_incidents', incident_key(d)) = id
                /\ lastCall'.ret = Some(id)]_vars

\* A call has opened a row that the index holds under the returned id.
C10_Witness ==
    /\ lastCall.isnew
    /\ \E i \in 1 .. Len(active_incidents) :
          /\ Some(active_incidents[i].id) = lastCall.ret
          /\ active_incidents[i].id \in DOMAIN incidents
          /\ ~incidents[active_incidents[i].id].is_resolved

\* C38: a stop() that follows a stop(), with no lifecycle call in between and at
\* whatever later time, writes nothing: the records and the index stay as the
\* first call left them.
C38_StopIdempotent ==
    [][Stop =>
          \A t \in {now, now + 1, Later} :
             LET again == stop_resolve(incidents', active_incidents', t)
             IN /\ again.db = incidents'
                /\ again.idx = active_incidents']_vars

\* stop() has run and has force-closed an incident.
C38_Witness ==
    /\ ~running
    /\ active_incidents = <<>>
    /\ \E i \in DOMAIN incidents :
          incidents[i].is_resolved /\ incidents[i].end_time = Some(now)

----
\* The methods statement by statement, as run by a thread t.  Python switches
\* threads between bytecodes, so the membership test, the store call and the
\* index update of one method are separate steps; a Database method runs under
\* the Database lock and is one step.

\* Where t continues when process_incident returns, and when a call raises: a
\* caller is done, a check loop's except clause logs and the loop sleeps, stop()
\* is left by the exception.
AfterProcess(t) == IF t \in Callers THEN "done" ELSE "loop"

\* A check loop without its except clause: the exception ends the thread.
AfterRaise_uncaught(t) ==
    IF t \in Callers THEN "raised" ELSE IF t = "main" THEN "stop_raised" ELSE "exited"

AfterRaise(t) ==
    IF t \in Callers THEN "raised" ELSE IF t = "main" THEN "stop_raised" ELSE "loop"

\* The locals t keeps when it leaves the detector: a caller keeps its result.
Leave(t, l) == IF t \in Callers THEN l ELSE NoLoc

\* t goes on with the keys it has left to resolve: into resolve_incident for
\* the first, or past the for loop (a check loop sleeps, stop() returns).
ResolveNext(t, l, keys) ==
    IF keys = <<>>
    THEN /\ loc' = [loc EXCEPT ![t] = Leave(t, l)]
         /\ pc' = [pc EXCEPT ![t] =
                     IF t \in Callers THEN "done"
                     ELSE IF t = "main" THEN "stopped" ELSE "loop"]
    ELSE /\ loc' = [loc EXCEPT ![t] = [l EXCEPT !.key = Head(keys), !.keys = Tail(keys)]]
         /\ pc' = [pc EXCEPT ![t] = "ri_test"]

Goto(t, label) == pc' = [pc EXCEPT ![t] = label]

\* process_incident, line 149: incident_key in self.active_incidents
PiTest(t) ==
    /\ pc[t] = "pi_test"
    /\ Goto(t, IF DictHas(active_incidents, loc[t].key) THEN "pi_get" ELSE "pi_add")
    /\ UNCHANGED <<db_lock, classified, incidents, active_incidents, now, running, current_state, loc,
                   lastCall, preexisting>>

\* lines 151-153: return self.active_incidents[incident_key]  (KeyError if gone)
PiGet(t) ==
    /\ pc[t] = "pi_get"
    /\ IF DictHas(active_incidents, loc[t].key)
       THEN /\ loc' = [loc EXCEPT ![t] =
                         Leave(t, [loc[t] EXCEPT
                                     !.ret = Some(DictGet(active_incidents, loc[t].key))])]
            /\ Goto(t, AfterProcess(t))
       ELSE /\ loc' = [loc EXCEPT ![t] = Leave(t, loc[t])]
            /\ Goto(t, AfterRaise(t))
    /\ UNCHANGED <<db_lock, classified, incidents, active_incidents, now, running, current_state,
                   lastCall, preexisting>>

\* lines 156-164: incident = self.db.add_incident(start_time=utcnow(), ...)
PiAdd(t) ==
    /\ pc[t] = "pi_add"
    /\ Cardinality(DOMAIN incidents) < MaxIncidents
    /\ LET a == add_incident(incidents, new_incident_kw(loc[t].desc, now))
       IN /\ incidents' = a.db
          /\ loc' = [loc EXCEPT ![t].id = a.id]
    /\ Goto(t, "pi_set")
    /\ UNCHANGED <<db_lock, classified, active_incidents, now, running, current_state, lastCall, preexisting>>

\* lines 165-167: self.active_incidents[incident_key] = incident.id; return it
PiSet(t) ==
    /\ pc[t] = "pi_set"
    /\ active_incidents' = DictSet(active_incidents, loc[t].key, loc[t].id)
    /\ loc' = [loc EXCEPT ![t] = Leave(t, [loc[t] EXCEPT !.ret = Some(loc[t].id)])]
    /\ Goto(t, AfterProcess(t))
    /\ UNCHANGED <<db_lock, classified, incidents, now, running, current_state, lastCall, preexisting>>

\* resolve_incident, line 176: incident_key in self.active_incidents
RiTest(t) ==
    /\ pc[t] = "ri_test"
    /\ IF DictHas(active_incidents, loc[t].key)
       THEN loc' = loc /\ Goto(t, "ri_get")
       ELSE ResolveNext(t, loc[t], loc[t].keys)
    /\ UNCHANGED <<db_lock, classified, incidents, active_incidents, now, running, current_state,
                   lastCall, preexisting>>

\* lines 177-179: incident_id = self.active_incidents[key]; end_time = utcnow()
RiGet(t) ==
    /\ pc[t] = "ri_get"
    /\ IF DictHas(active_incidents, loc[t].key)
       THEN /\ loc' = [loc EXCEPT ![t].id = DictGet(active_incidents, loc[t].key),
                                  ![t].end_time = now]
            /\ Goto(t, "ri_query")
       ELSE /\ loc' = [loc EXCEPT ![t] = Leave(t, loc[t])]
            /\ Goto(t, AfterRaise(t))
    /\ UNCHANGED <<db_lock, classified, incidents, active_incidents, now, running, current_state,
                   lastCall, preexisting>>

\* lines 181-182: the row among self.db.get_active_incidents(), or None
RiQuery(t) ==
    /\ pc[t] = "ri_query"
    /\ LET found == loc[t].id \in get_active_incidents(incidents)
       IN loc' = [loc EXCEPT ![t].found = found,
                             ![t].start_time =
                                 IF found THEN incidents[loc[t].id].start_time ELSE 0]
    /\ Goto(t, "ri_update")
    /\ UNCHANGED <<db_lock, classified, incidents, active_incidents, now, running, current_state,
                   lastCall, preexisting>>

\* lines 184-201: self.db.update_incident(incident_id, ...)
RiUpdate(t) ==
    /\ pc[t] = "ri_update"
    /\ incidents' = update_incident(incidents, loc[t].id,
                        resolve_kw(loc[t].found, loc[t].start_time, loc[t].end_time))
    /\ Goto(t, "ri_del")
    /\ UNCHANGED <<db_lock, classified, active_incidents, now, running, current_state, loc, lastCall,
                   preexisting>>

\* line 203: del self.active_incidents[incident_key]  (KeyError if gone)
RiDel(t) ==
    /\ pc[t] = "ri_del"
    /\ IF DictHas(active_incidents, loc[t].key)
       THEN /\ active_incidents' = DictDel(active_incidents, loc[t].key)
            /\ ResolveNext(t, loc[t], loc[t].keys)
       ELSE /\ active_incidents' = active_incidents
            /\ loc' = [loc EXCEPT ![t] = Leave(t, loc[t])]
            /\ Goto(t, AfterRaise(t))
    /\ UNCHANGED <<db_lock, classified, incidents, now, running, current_state, lastCall, preexisting>>

----
\* SpecConc: two check-loop threads, reduced to their process_incident calls.

\* Descriptors that differ in type only, that differ in their targets, and that
\* list the same targets in two orders.
ConcDescriptors ==
    {Desc("sensor_outage", "info", <<"s1">>, <<"Sensor unavailable", "s1">>,
          Some("WiFi/network connectivity issue")),
     Desc("wifi_outage", "critical", <<"s1">>, <<"WiFi interface disconnected", "s1">>, None),
     Desc("wifi_outage", "critical", <<"s1", "s2">>, <<"Gateway unreachable", "s1">>, None),
     Desc("wifi_outage", "critical", <<"s2", "s1">>, <<"Gateway unreachable", "s1">>, None)}

InitConc ==
    /\ InitCommon
    /\ running = TRUE
    /\ pc = [t \in Threads |-> "idle"]

\* t enters process_incident(d); line 147 computes the key.
CallProcess(t, d) ==
    /\ pc[t] \in {"idle", "done"}
    /\ loc' = [loc EXCEPT ![t] =
                 [NoLoc EXCEPT !.desc = d, !.key = incident_key(d),
                               !.wasopen = DictHas(active_incidents, incident_key(d))]]
    /\ Goto(t, "pi_test")
    /\ UNCHANGED <<db_lock, classified, incidents, active_incidents, now, running, current_state,
                   lastCall, preexisting>>

NextConc ==
    \/ Tick
    \/ \E t \in Callers :
          \/ \E d \in ConcDescriptors : CallProcess(t, d)
          \/ PiTest(t)
          \/ PiGet(t)
          \/ PiAdd(t)
          \/ PiSet(t)

SpecConc == InitConc /\ [][NextConc]_vars

----
\* Properties of SpecConc.

\* The rows of key k that this process created.
OwnRows(k) == {i \in DOMAIN incidents \ preexisting : RowKey(incidents[i]) = k}

\* Both callers have returned from process_incident.
BothDone(a, b) == a # b /\ pc[a] = "done" /\ pc[b] = "done"

\* C2: two callers that entered process_incident for one key while it was not
\* open have both returned the id of the one row created for it.
C2_ConcurrentSameKey ==
    \A a, b \in Callers :
        (/\ BothDone(a, b)
         /\ loc[a].key = loc[b].key
         /\ ~loc[a].wasopen
         /\ ~loc[b].wasopen) =>
            /\ loc[a].ret = loc[b].ret
            /\ Cardinality(OwnRows(loc[a].key)) = 1

\* C4: descriptors that differ in type or in their set of targets have different
\* keys; the two calls return different ids, each the id of a stored row of the
\* call's own key, and both keys are in the index.
C4_KeyIndependence ==
    \A a, b \in Callers :
        (/\ BothDone(a, b)
         /\ \/ loc[a].desc.incident_type # loc[b].desc.incident_type
            \/ Range(loc[a].desc.affected_targets) # Range(loc[b].desc.affected_targets)) =>
            /\ incident_key(loc[a].desc) # incident_key(loc[b].desc)
            /\ loc[a].ret # None /\ loc[b].ret # None
            /\ loc[a].ret # loc[b].ret
            /\ \A t \in {a, b} :
                  /\ Val(loc[t].ret) \in DOMAIN incidents
                  /\ incidents[Val(loc[t].ret)].incident_type = loc[t].desc.incident_type
                  /\ incidents[Val(loc[t].ret)].affected_targets
                        \in {json_dumps(d.affected_targets) : d \in ConcDescriptors}
                  /\ Range(Val(json_loads(incidents[Val(loc[t].ret)].affected_targets)))
                        = Range(loc[t].desc.affected_targets)
                  /\ DictHas(active_incidents, loc[t].key)

\* Two calls for one type and different target sets, both of which found their
\* key closed, have returned.
C4_Witness ==
    \E a, b \in Callers :
        /\ BothDone(a, b)
        /\ ~loc[a].wasopen /\ ~loc[b].wasopen
        /\ loc[a].desc.incident_type = loc[b].desc.incident_type
        /\ Range(loc[a].desc.affected_targets) # Range(loc[b].desc.affected_targets)
        /\ active_incidents # <<>>

\* Descriptors of one type whose target lists hold the same targets.
SameTargets(d, e) ==
    /\ d.incident_type = e.incident_type
    /\ Range(d.affected_targets) = Range(e.affected_targets)

\* C22: descriptors of one type whose target lists hold the same targets, in
\* any order, have one dedup key; a call with one of them that finds the key
\* open returns an id the index holds for it, and when one row of the key
\* exists, opened by the other, both calls return that row's id.
C22_TargetOrderIrrelevant ==
    /\ \A d, e \in ConcDescriptors : SameTargets(d, e) => incident_key(d) = incident_key(e)
    /\ \A a, b \in Callers :
          (/\ BothDone(a, b)
           /\ SameTargets(loc[a].desc, loc[b].desc)
           /\ ~loc[a].wasopen
           /\ loc[b].wasopen) =>
              /\ loc[b].key = loc[a].key
              /\ Val(loc[b].ret) \in OwnRows(loc[a].key)
              /\ Cardinality(OwnRows(loc[a].key)) = 1 => loc[b].ret = loc[a].ret

\* One caller has opened an incident on targets listed in one order, the other
\* has fired the same targets in the other order and got the same id.
C22_Witness ==
    \E a, b \in Callers :
        /\ BothDone(a, b)
        /\ SameTargets(loc[a].desc, loc[b].desc)
        /\ loc[a].desc.affected_targets # loc[b].desc.affected_targets
        /\ ~loc[a].wasopen
        /\ loc[b].wasopen
        /\ loc[b].ret = loc[a].ret
        /\ Cardinality(OwnRows(loc[a].key)) = 1

----
\* SpecApp: NetworkMonitorApp after start() with no sensors configured: the WiFi
\* and network check loops and the main thread, which runs stop() on a signal
\* or at the end of the monitoring duration.

\* Configuration: wifi.interface, gateway.ip, internet_targets, sensors[0].name,
\* wifi.rssi_critical_threshold.
Interface == "wlan0"

GatewayIp == "gw"

InternetTargets == <<"t1">>

SensorName == "s1"

RssiCritical == -80

\* Snapshots the probes can return.
WifiSnapshots ==
    {[interface |-> Interface, is_connected |-> FALSE, rssi |-> None],
     [interface |-> Interface, is_connected |-> TRUE, rssi |-> Some(-90)],
     [interface |-> Interface, is_connected |-> TRUE, rssi |-> Some(-50)]}

GatewayResults ==
    {[target |-> GatewayIp, is_reachable |-> FALSE, packet_loss |-> 100],
     [target |-> GatewayIp, is_reachable |-> TRUE, packet_loss |-> 0]}

InternetResults ==
    {[i \in 1 .. Len(InternetTargets) |->
        [target |-> InternetTargets[i], is_reachable |-> r, packet_loss |-> 0]] :
            r \in BOOLEAN}

SensorResults == {[sensor_name |-> SensorName, is_available |-> a] : a \in BOOLEAN}

\* key.startswith(incident_type + ":")
HasType(key, types) == key[1] \in types

InitApp ==
    /\ InitCommon
    /\ running = TRUE
    /\ pc = [t \in Threads |->
               IF t \in LoopThreads THEN "loop" ELSE IF t = "main" THEN "live" ELSE "idle"]

\* A while test that does not read running: while True.
LoopHead_while_true(t) ==
    /\ pc[t] = "loop"
    /\ Goto(t, "check")
    /\ UNCHANGED <<db_lock, classified, incidents, active_incidents, now, running, current_state, loc,
                   lastCall, preexisting>>

\* while self.running:  (after time.sleep(interval), or on entry)
LoopHead(t) ==
    /\ pc[t] = "loop"
    /\ Goto(t, IF running THEN "check" ELSE "exited")
    /\ UNCHANGED <<db_lock, classified, incidents, active_incidents, now, running, current_state, loc,
                   lastCall, preexisting>>

\* The thread goes on with descriptor d: into process_incident if there is one,
\* into its clearing branch if there is none.
Classified(t, d) ==
    IF d # NoDesc
    THEN /\ loc' = [loc EXCEPT ![t] =
                      [NoLoc EXCEPT !.desc = d, !.key = incident_key(d),
                                    !.wasopen = DictHas(active_incidents, incident_key(d))]]
         /\ Goto(t, "pi_test")
    ELSE /\ loc' = [loc EXCEPT ![t] = NoLoc]
         /\ Goto(t, "clear")

\* _monitor_wifi, lines 181-196
WifiCheck ==
    /\ pc["wifi"] = "check"
    /\ \E w \in WifiSnapshots :
          /\ current_state' = [current_state EXCEPT !.wifi = Some(w)]
          /\ Classified("wifi", check_wifi_status(w, RssiCritical))
    /\ UNCHANGED <<db_lock, classified, incidents, active_incidents, now, running, lastCall, preexisting>>

\* _monitor_network, lines 226-248
NetCheck ==
    /\ pc["net"] = "check"
    /\ \E g \in GatewayResults, rs \in InternetResults :
          /\ current_state' = [current_state EXCEPT !.gateway = Some(g)]
          /\ Classified("net", check_network_connectivity(g, rs))
    /\ UNCHANGED <<db_lock, classified, incidents, active_incidents, now, running, lastCall, preexisting>>

\* WiFi taken to be working while no snapshot has been recorded.
current_wifi_ok_unless_seen_down(cs) ==
    IF cs.wifi = None THEN TRUE ELSE Val(cs.wifi).is_connected

\* self.current_state.get("wifi", {}).get("is_connected", False)
current_wifi_ok(cs) ==
    IF cs.wifi = None THEN FALSE ELSE Val(cs.wifi).is_connected

\* self.current_state.get("gateway", {}).get("is_reachable", False)
current_gateway_ok(cs) ==
    IF cs.gateway = None THEN FALSE ELSE Val(cs.gateway).is_reachable

\* _monitor_sensor, lines 273-319 (one thread per configured sensor; none is
\* started in SpecApp)
SensorCheck ==
    /\ pc["sensor"] = "check"
    /\ \E r \in SensorResults :
          Classified("sensor",
                     check_sensor_status(r, current_wifi_ok(current_state),
                     current_gateway_ok(current_state)))
    /\ UNCHANGED <<db_lock, classified, incidents, active_incidents, now, running, current_state,
                   lastCall, preexisting>>

\* The keys a loop closes when its check found no incident:
\* lines 200-202 (wifi), 251-253 (network), 323-325 (sensor).
ClearKeys(t) ==
    IF t = "wifi"
    THEN SelectSeq(DictKeys(active_incidents),
                   LAMBDA k : HasType(k, {"wifi_outage", "wifi_degradation"}))
    ELSE IF t = "net"
    THEN SelectSeq(DictKeys(active_incidents), LAMBDA k : HasType(k, {"internet_outage"}))
    ELSE SelectSeq(DictKeys(active_incidents),
                   LAMBDA k : k = <<"sensor_outage", <<SensorName>>>>)

\* list(self.incident_detector.active_incidents.keys()), filtered; then
\* resolve_incident(key) for each key in turn.
Clear(t) ==
    /\ pc[t] = "clear"
    /\ ResolveNext(t, NoLoc, ClearKeys(t))
    /\ UNCHANGED <<db_lock, classified, incidents, active_incidents, now, running, current_state,
                   lastCall, preexisting>>

\* stop(), line 166: self.running = False
StopBegin ==
    /\ pc["main"] = "live"
    /\ running' = FALSE
    /\ Goto("main", "stop_keys")
    /\ UNCHANGED <<db_lock, classified, incidents, active_incidents, now, current_state, loc, lastCall,
                   preexisting>>

\* stop(), lines 169-170: list(self.incident_detector.active_incidents.keys());
\* then resolve_incident(key) for each key in turn.
StopKeys ==
    /\ pc["main"] = "stop_keys"
    /\ ResolveNext("main", NoLoc, DictKeys(active_incidents))
    /\ UNCHANGED <<db_lock, classified, incidents, active_incidents, now, running, current_state,
                   lastCall, preexisting>>

AppThreads == LoopThreads \cup {"main"}

NextApp ==
    \/ Tick
    \/ WifiCheck
    \/ NetCheck
    \/ StopBegin
    \/ StopKeys
    \/ \E t \in LoopThreads : LoopHead(t) \/ Clear(t)
    \/ \E t \in AppThreads : RiTest(t) \/ RiGet(t) \/ RiQuery(t) \/ RiUpdate(t)
                                \/ RiDel(t)
    \/ \E t \in LoopThreads : PiTest(t) \/ PiGet(t) \/ PiAdd(t) \/ PiSet(t)

SpecApp == InitApp /\ [][NextApp]_vars

----
\* Properties of SpecApp

\* A check loop is inside a lifecycle call (process_incident or
\* resolve_incident) or about to make one for the snapshot it has classified.
LifecycleLabels ==
    {"pi_test", "pi_get", "pi_add", "pi_set",
     "ri_test", "ri_get", "ri_query", "ri_update", "ri_del"}

InFlight(t) == pc[t] \in LifecycleLabels \cup {"clear"}

\* stop() has started to force-close the open incidents.
ForceCloseBegun == pc["main"] \in LifecycleLabels \cup {"stop_keys", "stopped", "stop_raised"}

\* C6: a resolved Incident is never written again: once is_resolved is true no
\* step changes its end_time, duration_seconds or is_resolved, also when a check
\* loop and stop() resolve the same key concurrently.
C6_ResolvedOnce ==
    [][\A i \in DOMAIN incidents :
          incidents[i].is_resolved =>
              /\ i \in DOMAIN incidents'
              /\ incidents'[i].is_resolved = incidents[i].is_resolved
              /\ incidents'[i].end_time = incidents[i].end_time
              /\ incidents'[i].duration_seconds = incidents[i].duration_seconds]_vars

\* C7: once stop() has returned and every check loop has exited, the index is
\* empty and every Incident this process created is resolved.
C7_NothingSurvivesShutdown ==
    (pc["main"] = "stopped" /\ \A t \in LoopThreads : pc[t] = "exited") =>
        /\ active_incidents = <<>>
        /\ \A i \in DOMAIN incidents \ preexisting : incidents[i].is_resolved

\* C8: once the force-close of stop() has begun, no check loop is inside or
\* about to enter process_incident or resolve_incident.
C8_ShutdownOrdering ==
    ForceCloseBegun => \A t \in LoopThreads : ~InFlight(t)

----
\* SpecStore: one caller makes the lifecycle calls one at a time on a store
\* whose writes can fail and whose old rows the retention cleanup deletes.  The
\* caller's pc tells which call it made last and whether it returned or raised;
\* its locals keep the call's key, the id the index held and the lookup result.

\* data_retention_days, in ticks.
RetentionTicks == 600

\* add_incident raises (lines 156-164): line 165 is not reached.
process_incident_add_fails_registered(db, idx, d, t) ==
    [db |-> db, idx |-> DictSet(idx, incident_key(d), NextId(db))]

process_incident_add_fails(db, idx, d, t) == [db |-> db, idx |-> idx]

\* update_incident raises (lines 186-201): line 203 is not reached.
resolve_incident_update_fails(db, idx, key, t) == [db |-> db, idx |-> idx]

\* session.query(Incident).filter(Incident.start_time < cutoff).delete()
cleanup_old_data(db, cutoff) ==
    [i \in {j \in DOMAIN db : ~(db[j].start_time < cutoff)} |-> db[i]]

\* The locals of a call on key: the index entry and the store lookup at entry.
Entry(d, key) ==
    LET open == DictHas(active_incidents, key)
        id == IF open THEN DictGet(active_incidents, key) ELSE 0
    IN [NoLoc EXCEPT !.desc = d, !.key = key, !.wasopen = open, !.id = id,
                     !.found = open /\ id \in get_active_incidents(incidents)]

Returned(label, l) ==
    /\ pc' = [pc EXCEPT !["c1"] = label]
    /\ loc' = [loc EXCEPT !["c1"] = l]

\* The descriptors the caller fires: two of the key an earlier process may have
\* left unresolved in the store, which differ in severity and cause, and one of
\* another key.
StoreDescriptors == {d \in Descriptors : d.affected_targets = <<"s1">>}

StoreKeys == {incident_key(d) : d \in StoreDescriptors}

InitStore == Init

StoreProcess(d) ==
    LET r == process_incident(incidents, active_incidents, d, now)
    IN /\ DictHas(active_incidents, incident_key(d))
            \/ Cardinality(DOMAIN incidents) < MaxIncidents
       /\ incidents' = r.db
       /\ active_incidents' = r.idx
       /\ lastCall' = Call(Some(r.ret), r.isnew)
       /\ Returned("process_done", [Entry(d, incident_key(d)) EXCEPT !.ret = Some(r.ret)])
       /\ UNCHANGED <<db_lock, classified, now, running, current_state, preexisting>>

StoreProcessFails(d) ==
    LET r == process_incident_add_fails(incidents, active_incidents, d, now)
    IN /\ ~DictHas(active_incidents, incident_key(d))
       /\ incidents' = r.db
       /\ active_incidents' = r.idx
       /\ lastCall' = Call(None, FALSE)
       /\ Returned("process_raised", Entry(d, incident_key(d)))
       /\ UNCHANGED <<db_lock, classified, now, running, current_state, preexisting>>

StoreResolve(key) ==
    LET r == resolve_incident(incidents, active_incidents, key, now)
    IN /\ incidents' = r.db
       /\ active_incidents' = r.idx
       /\ Returned("resolve_done", Entry(NoDesc, key))
       /\ UNCHANGED <<db_lock, classified, now, running, current_state, lastCall, preexisting>>

StoreResolveFails(key) ==
    LET r == resolve_incident_update_fails(incidents, active_incidents, key, now)
    IN /\ DictHas(active_incidents, key)
       /\ incidents' = r.db
       /\ active_incidents' = r.idx
       /\ Returned("resolve_raised", Entry(NoDesc, key))
       /\ UNCHANGED <<db_lock, classified, now, running, current_state, lastCall, preexisting>>

\* cleanup_old_data(retention_days), run between two lifecycle calls.
StoreCleanup ==
    /\ incidents' = cleanup_old_data(incidents, now - RetentionTicks)
    /\ incidents' # incidents
    /\ preexisting' = preexisting \cap DOMAIN incidents'
    /\ UNCHANGED <<db_lock, classified, active_incidents, now, running, current_state, pc, loc, lastCall>>

NextStore ==
    \/ Tick
    \/ \E d \in StoreDescriptors : StoreProcess(d)
    \/ \E d \in StoreDescriptors : StoreProcessFails(d)
    \/ \E k \in StoreKeys : StoreResolve(k)
    \/ \E k \in StoreKeys : StoreResolveFails(k)
    \/ StoreCleanup

SpecStore == InitStore /\ [][NextStore]_vars

----
\* Properties of SpecStore

\* The caller's last call.
LastPc == pc["c1"]

Last == loc["c1"]

\* C11: resolve_incident for a key that is not in the index leaves every row
\* and the index as they were, and returns without raising.
C11_CloseNotOpenIsNoop ==
    [][\A k \in StoreKeys :
          ((StoreResolve(k) \/ StoreResolveFails(k)) /\ ~DictHas(active_incidents, k)) =>
              /\ incidents' = incidents
              /\ active_incidents' = active_incidents
              /\ pc'["c1"] = "resolve_done"]_vars

\* A close of a key that was not open has returned, while the store holds an
\* unresolved row of that key and another key is open.
C11_Witness ==
    /\ LastPc = "resolve_done"
    /\ ~Last.wasopen
    /\ Unresolved(Last.key) # {}
    /\ active_incidents # <<>>

\* C13: when add_incident raises inside process_incident, the store and the
\* index are unchanged and the key is not in the index; the next call with the
\* same descriptor takes the create path again: it opens a new row and returns
\* its id, or fails again, and never returns an id from the index.
C13_FailedOpenNotIndexed ==
    [][\A d \in StoreDescriptors :
          /\ StoreProcessFails(d) =>
                /\ active_incidents' = active_incidents
                /\ incidents' = incidents
                /\ ~DictHas(active_incidents', incident_key(d))
                /\ pc'["c1"] = "process_raised"
          /\ (LastPc = "process_raised" /\ Last.desc = d /\ StoreProcess(d)) =>
                /\ lastCall'.isnew
                /\ Val(lastCall'.ret) \in DOMAIN incidents' \ DOMAIN incidents
                /\ DictGet(active_incidents', incident_key(d)) = Val(lastCall'.ret)]_vars

\* An open has failed while another key is open: the failed key is not indexed
\* and no row of this process carries it unresolved.
C13_Witness ==
    /\ LastPc = "process_raised"
    /\ ~DictHas(active_incidents, Last.key)
    /\ Unresolved(Last.key) \ preexisting = {}
    /\ active_incidents # <<>>

\* The call is a resolve_incident of an open key whose id the lookup in
\* get_active_incidents() does not return, and the store calls succeed.
CloseOfMissing(k) ==
    /\ StoreResolve(k)
    /\ DictHas(active_incidents, k)
    /\ DictGet(active_incidents, k) \notin get_active_incidents(incidents)

\* C15 as stated: a close of an open key whose record the lookup does not
\* return does not raise, leaves the incident resolved with end_time = now and
\* no duration, and removes the key.
C15_MissingRecordOnClose ==
    [][\A k \in StoreKeys :
          CloseOfMissing(k) =>
            LET id == DictGet(active_incidents, k)
            IN /\ pc'["c1"] = "resolve_done"
               /\ id \in DOMAIN incidents'
               /\ incidents'[id].is_resolved
               /\ incidents'[id].end_time = Some(now)
               /\ incidents'[id].duration_seconds = None
               /\ ~DictHas(active_incidents', k)]_vars

\* C15 amended: such a close does not raise and removes the key; a row of that
\* id that is still in the store gets is_resolved and end_time = now and keeps
\* its duration_seconds; if the store has no row of that id, no row changes.
C15_MissingRecordOnCloseAmended ==
    [][\A k \in StoreKeys :
          CloseOfMissing(k) =>
            LET id == DictGet(active_incidents, k)
            IN /\ pc'["c1"] = "resolve_done"
               /\ ~DictHas(active_incidents', k)
               /\ active_incidents' = DictDel(active_incidents, k)
               /\ IF id \in DOMAIN incidents
                  THEN incidents' =
                          [incidents EXCEPT ![id] =
                              [@ EXCEPT !.is_resolved = TRUE, !.end_time = Some(now)]]
                  ELSE incidents' = incidents]_vars

\* A close has returned for a key that was open under an id the lookup did not
\* return, and the store has no row of that id.
C15_Witness ==
    /\ LastPc = "resolve_done"
    /\ Last.wasopen
    /\ ~Last.found
    /\ Last.id \notin DOMAIN incidents
    /\ ~DictHas(active_incidents, Last.key)

\* C16: a resolve_incident call on an open key leaves the key out of the index,
\* whether the row was found, was missing, or update_incident raised.
C16_CloseRemovesKey ==
    [][\A k \in StoreKeys :
          ((StoreResolve(k) \/ StoreResolveFails(k)) /\ DictHas(active_incidents, k)) =>
              ~DictHas(active_incidents', k)]_vars

\* C35: the process_incident call that follows the close of an incident of the
\* same key adds a row whose id is not the closed incident's id nor that of a
\* stored row, unresolved and started now, and leaves the closed row as it was.
C35_ReopenAfterClose ==
    [][\A d \in StoreDescriptors :
          (/\ StoreProcess(d)
           /\ LastPc = "resolve_done"
           /\ Last.key = incident_key(d)
           /\ Last.found) =>
              /\ loc'["c1"].ret # None
              /\ Val(loc'["c1"].ret) # Last.id
              /\ Val(loc'["c1"].ret) \notin DOMAIN incidents
              /\ Val(loc'["c1"].ret) \in DOMAIN incidents'
              /\ incidents'[Val(loc'["c1"].ret)].start_time = now
              /\ ~incidents'[Val(loc'["c1"].ret)].is_resolved
              /\ \A i \in DOMAIN incidents : incidents'[i] = incidents[i]]_vars

\* C28: every id in the index is the id of a stored, unresolved row, and the
\* index holds as many keys as the store holds unresolved rows created by this
\* detector, in every state, those after cleanup_old_data included.
C28_IndexStoreConsistency ==
    /\ \A p \in 1 .. Len(active_incidents) :
          /\ active_incidents[p].id \in DOMAIN incidents
          /\ ~incidents[active_incidents[p].id].is_resolved
    /\ Len(active_incidents) =
          Cardinality({i \in DOMAIN incidents \ preexisting : ~incidents[i].is_resolved})

----
\* SpecReconcile: one caller opens incidents of three keys and reconciles them
\* against live-sets, all within one reading of the clock.

\* Rows the caller opens at most.
MaxOpened == 3

\* One descriptor for each of three keys.
ReconcileDescriptors == {d \in Descriptors : d.severity # "info"}

\* The keys check_and_resolve_incidents is about to close (its to_resolve).
ToResolve(current_states) ==
    SelectSeq(DictKeys(active_incidents),
              LAMBDA k : k \notin DOMAIN current_states \/ ~current_states[k])

Open(d) ==
    LET r == process_incident(incidents, active_incidents, d, now)
    IN /\ DictHas(active_incidents, incident_key(d))
            \/ Cardinality(DOMAIN incidents) < MaxOpened
       /\ incidents' = r.db
       /\ active_incidents' = r.idx
       /\ lastCall' = Call(Some(r.ret), r.isnew)
       /\ Returned("process_done", [Entry(d, incident_key(d)) EXCEPT !.ret = Some(r.ret)])
       /\ UNCHANGED <<db_lock, classified, now, running, current_state, preexisting>>

Reconcile(current_states) ==
    LET r == check_and_resolve_incidents(incidents, active_incidents, current_states, now)
    IN /\ incidents' = r.db
       /\ active_incidents' = r.idx
       /\ Returned("reconcile_done", [NoLoc EXCEPT !.keys = ToResolve(current_states)])
       /\ UNCHANGED <<db_lock, classified, now, running, current_state, lastCall, preexisting>>

NextReconcile ==
    \/ \E d \in ReconcileDescriptors : Open(d)
    \/ \E cs \in CurrentStates : Reconcile(cs)

SpecReconcile == Init /\ [][NextReconcile]_vars

\* C12: check_and_resolve_incidents closes every open key that current_states
\* lacks or maps to False, closes no key it maps to True, opens nothing, and
\* leaves the index with exactly the keys it maps to True, under their ids.
C12_ReconcileExact ==
    [][\A cs \in CurrentStates :
          Reconcile(cs) =>
            LET O == Range(DictKeys(active_incidents))
                live == {k \in O : k \in DOMAIN cs /\ cs[k]}
                closed == {DictGet(active_incidents, k) : k \in O \ live}
            IN /\ Range(DictKeys(active_incidents')) = live
               /\ Len(active_incidents') = Cardinality(live)
               /\ \A k \in live :
                     DictGet(active_incidents', k) = DictGet(active_incidents, k)
               /\ DOMAIN incidents' = DOMAIN incidents
               /\ \A i \in closed : ~incidents[i].is_resolved /\ incidents'[i].is_resolved
               /\ \A i \in DOMAIN incidents \ closed : incidents'[i] = incidents[i]]_vars

\* A reconcile has closed two of three open keys and left the third open.
C12_Witness ==
    /\ LastPc = "reconcile_done"
    /\ Len(Last.keys) = 2
    /\ Len(active_incidents) = 1
    /\ \A i \in 1 .. 2 : Unresolved(Last.keys[i]) \ preexisting = {}
    /\ Unresolved(active_incidents[1].key) # {}

----
\* SpecLoops: the WiFi, network and sensor check loops, one whole iteration
\* (while test, probe, classification, lifecycle calls) per step, over a store
\* whose incident writes can fail, and stop() run by the main thread.  A loop is
\* at "loop" between iterations, at "except" when its iteration has raised.
\* The clock is not advanced: no step here depends on a duration.

AllLoops == LoopThreads \cup SensorThreads

InitLoops ==
    /\ InitCommon
    /\ running = TRUE
    /\ pc = [t \in Threads |->
               IF t \in AllLoops THEN "loop" ELSE IF t = "main" THEN "live" ELSE "idle"]

\* resolve_incident for the first n - 1 keys; update_incident raises for the
\* n-th, which ends the for loop.
resolve_all_failing(db, idx, keys, t, n) == resolve_all(db, idx, SubSeq(keys, 1, n - 1), t)

\* The lifecycle part of an iteration of loop t, which is at label at and has
\* classified its snapshot as d: process_incident(d), or the clearing branch;
\* fails tells whether a store write raises.
LifecycleAt(at, t, d, fails) ==
    /\ pc[t] = at
    /\ pc' = [pc EXCEPT ![t] = IF fails THEN "except" ELSE "loop"]
    /\ UNCHANGED <<db_lock, classified, now, running, loc, lastCall, preexisting>>
    /\ IF d # NoDesc
       THEN LET r == IF fails
                     THEN process_incident_add_fails(incidents, active_incidents, d, now)
                     ELSE process_incident(incidents, active_incidents, d, now)
            IN /\ fails => ~DictHas(active_incidents, incident_key(d))
               /\ DictHas(active_incidents, incident_key(d))
                    \/ Cardinality(DOMAIN incidents) < MaxIncidents
               /\ incidents' = r.db
               /\ active_incidents' = r.idx
       ELSE IF fails
            THEN \E n \in 1 .. Len(ClearKeys(t)) :
                    LET r == resolve_all_failing(incidents, active_incidents,
                                                 ClearKeys(t), now, n)
                    IN incidents' = r.db /\ active_incidents' = r.idx
            ELSE LET r == resolve_all(incidents, active_incidents, ClearKeys(t), now)
                 IN incidents' = r.db /\ active_incidents' = r.idx

\* The while test found running true, and the body follows in the same step.
Lifecycle(t, d, fails) == running /\ LifecycleAt("loop", t, d, fails)

\* _monitor_wifi, lines 178-204, with snapshot w
WifiIteration(w, fails) ==
    /\ current_state' = [current_state EXCEPT !.wifi = Some(w)]
    /\ Lifecycle("wifi", check_wifi_status(w, RssiCritical), fails)

\* _monitor_network, lines 223-255, with ping results g and rs
NetIteration(g, rs, fails) ==
    /\ current_state' = [current_state EXCEPT !.gateway = Some(g)]
    /\ Lifecycle("net", check_network_connectivity(g, rs), fails)

\* _monitor_sensor, lines 270-327, with check result r
SensorIteration(r, fails) ==
    /\ current_state' = current_state
    /\ Lifecycle("sensor",
                 check_sensor_status(r, current_wifi_ok(current_state),
                     current_gateway_ok(current_state)),
                 fails)

\* except Exception as e: logger.error(...); then time.sleep(interval)
Handler(t) ==
    /\ pc[t] = "except"
    /\ pc' = [pc EXCEPT ![t] = AfterRaise(t)]
    /\ UNCHANGED <<db_lock, classified, incidents, active_incidents, now, running, current_state, loc,
                   lastCall, preexisting>>

\* while self.running:  is false
LoopExit(t) ==
    /\ pc[t] = "loop"
    /\ ~running
    /\ pc' = [pc EXCEPT ![t] = "exited"]
    /\ UNCHANGED <<db_lock, classified, incidents, active_incidents, now, running, current_state, loc,
                   lastCall, preexisting>>

\* stop(), lines 164-170
StopLoops ==
    LET r == stop_resolve(incidents, active_incidents, now)
    IN /\ pc["main"] = "live"
       /\ running' = FALSE
       /\ incidents' = r.db
       /\ active_incidents' = r.idx
       /\ pc' = [pc EXCEPT !["main"] = "stopped"]
       /\ UNCHANGED <<db_lock, classified, now, current_state, loc, lastCall, preexisting>>

NextLoops ==
    \/ \E w \in WifiSnapshots, f \in BOOLEAN : WifiIteration(w, f)
    \/ \E g \in GatewayResults, rs \in InternetResults, f \in BOOLEAN : NetIteration(g, rs, f)
    \/ \E r \in SensorResults, f \in BOOLEAN : SensorIteration(r, f)
    \/ \E t \in AllLoops : Handler(t)
    \/ \E t \in AllLoops : LoopExit(t)
    \/ StopLoops

SpecLoops == InitLoops /\ [][NextLoops]_vars

----
\* Properties of SpecLoops

\* An iteration of loop t.
Iteration(t, fails) ==
    \/ t = "wifi" /\ \E w \in WifiSnapshots : WifiIteration(w, fails)
    \/ t = "net" /\ \E g \in GatewayResults, rs \in InternetResults : NetIteration(g, rs, fails)
    \/ t = "sensor" /\ \E r \in SensorResults : SensorIteration(r, fails)

\* An iteration of loop t whose classifier returned no incident and in which no
\* store write raised.
ClearIteration(t) ==
    \/ /\ t = "wifi"
       /\ \E w \in WifiSnapshots :
             check_wifi_status(w, RssiCritical) = NoDesc /\ WifiIteration(w, FALSE)
    \/ /\ t = "net"
       /\ \E g \in GatewayResults, rs \in InternetResults :
             check_network_connectivity(g, rs) = NoDesc /\ NetIteration(g, rs, FALSE)
    \/ /\ t = "sensor"
       /\ \E r \in SensorResults : r.is_available /\ SensorIteration(r, FALSE)

\* The keys of the incidents loop t can open in this configuration; no two
\* loops share one.
EmitKeys(t) ==
    IF t = "wifi"
    THEN {<<"wifi_outage", <<Interface>>>>, <<"wifi_degradation", <<Interface>>>>}
    ELSE IF t = "net"
    THEN {<<"wifi_outage", <<GatewayIp>>>>, <<"wifi_degradation", <<GatewayIp>>>>,
          <<"internet_outage", sorted(InternetTargets)>>}
    ELSE {<<"sensor_outage", <<SensorName>>>>}

\* C14: an iteration in which a store write raises leaves the loop in its
\* except clause, from where it returns to the loop head; a loop leaves only
\* from the loop head with running false; and at the loop head with running
\* true its next iteration can start.
C14_LoopSurvivesStoreFailure ==
    /\ [][\A t \in AllLoops :
            /\ Iteration(t, TRUE) => pc'[t] = "except"
            /\ (pc[t] = "except" /\ pc'[t] # pc[t]) => pc'[t] = "loop"
            /\ (pc[t] # "exited" /\ pc'[t] = "exited") => (pc[t] = "loop" /\ ~running)]_vars
    /\ [](\A t \in AllLoops :
            /\ pc[t] = "except" => ENABLED Handler(t)
            /\ (pc[t] = "loop" /\ running) => ENABLED Iteration(t, FALSE))

\* Every loop has had a store write raise in its iteration while monitoring runs.
C14_Witness == running /\ \A t \in AllLoops : pc[t] = "except"

\* C17: after an iteration of a loop whose classifier returned no incident, no
\* key of an incident that loop can open is in the index.
C17_PerSourceClearing ==
    [][\A t \in AllLoops :
          ClearIteration(t) => \A k \in EmitKeys(t) : ~DictHas(active_incidents', k)]_vars

\* C32: an iteration of the sensor loop is the one whose classifier is given,
\* for wifi_ok and gateway_ok, the is_connected and is_reachable of the last
\* snapshots the WiFi and network loops recorded, and false for a snapshot not
\* recorded yet; so the incident it opens for an unavailable sensor is info
\* with the network-correlated cause unless both snapshots are recorded and up.
C32_SensorCorrelation ==
    [][\A r \in SensorResults, f \in BOOLEAN :
          SensorIteration(r, f) =>
              LET w == current_state.wifi # None /\ Val(current_state.wifi).is_connected
                  g == current_state.gateway # None /\ Val(current_state.gateway).is_reachable
              IN /\ Lifecycle("sensor", check_sensor_status(r, w, g), f)
                 /\ \A i \in DOMAIN incidents' \ DOMAIN incidents :
                       /\ incidents'[i].incident_type = "sensor_outage"
                       /\ incidents'[i].severity = IF w /\ g THEN "warning" ELSE "info"]_vars

\* The sensor loop has opened an info incident on the sensor while neither the
\* WiFi loop nor the network loop has recorded a snapshot.
C32_Witness ==
    /\ current_state.wifi = None
    /\ current_state.gateway = None
    /\ \E i \in DOMAIN incidents \ preexisting :
          /\ incidents[i].incident_type = "sensor_outage"
          /\ incidents[i].severity = "info"
          /\ incidents[i].probable_cause =
                Some("WiFi/network connectivity issue (correlated with WiFi/gateway outage)")

\* C33: the wifi_outage incident on the gateway target leaves the index only in
\* stop(), or when the last gateway result recorded is reachable; an iteration
\* of the WiFi loop with a healthy snapshot does not close it.
C33_GatewayOutageKept ==
    [][(/\ DictHas(active_incidents, <<"wifi_outage", <<GatewayIp>>>>)
        /\ ~DictHas(active_incidents', <<"wifi_outage", <<GatewayIp>>>>)) =>
           \/ running /\ ~running'
           \/ current_gateway_ok(current_state)]_vars

\* C34: after an iteration of the WiFi loop in which no store write raised,
\* wifi_outage on the interface is in the index only if the iteration's
\* snapshot is disconnected, and wifi_degradation on the interface only if it
\* is connected with a signal below the threshold.
C34_WifiKeysFollowSnapshot ==
    [][\A w \in WifiSnapshots :
          WifiIteration(w, FALSE) =>
              /\ DictHas(active_incidents', <<"wifi_outage", <<Interface>>>>) =>
                    ~w.is_connected
              /\ DictHas(active_incidents', <<"wifi_degradation", <<Interface>>>>) =>
                    (w.is_connected /\ w.rssi # None /\ Val(w.rssi) < RssiCritical)]_vars

----
\* SpecClassify: the three classifiers applied to their inputs.  The initial
\* state holds the arguments of one call, the step records what it returns.

\* Signal strengths, thresholds and packet loss percentages tried.
RssiValues == {-90, -81, -80, -79, 0, 5}

RssiThresholds == {-80, -70, 0, 10}

PacketLosses == {0, 20, 21, 100}

\* Lists of ping results for the first n internet targets.
AllInternetTargets == <<"t1", "t2">>

InternetResultLists ==
    UNION {[1 .. n -> BOOLEAN] : n \in 0 .. Len(AllInternetTargets)}

PingList(reach) ==
    [i \in DOMAIN reach |->
        [target |-> AllInternetTargets[i], is_reachable |-> reach[i], packet_loss |-> 0]]

WifiCalls ==
    {[fn |-> "check_wifi_status",
      args |-> <<[interface |-> Interface, is_connected |-> c, rssi |-> r], th>>,
      result |-> None] :
        c \in BOOLEAN, r \in {None} \cup {Some(v) : v \in RssiValues}, th \in RssiThresholds}

NetworkCalls ==
    {[fn |-> "check_network_connectivity",
      args |-> <<[target |-> GatewayIp, is_reachable |-> c, packet_loss |-> l], PingList(rs)>>,
      result |-> None] :
        c \in BOOLEAN, l \in PacketLosses, rs \in InternetResultLists}

SensorCalls ==
    {[fn |-> "check_sensor_status",
      args |-> <<[sensor_name |-> n, is_available |-> a], w, g>>,
      result |-> None] :
        n \in {"s1", "s2"}, a \in BOOLEAN, w \in BOOLEAN, g \in BOOLEAN}

InitClassify ==
    /\ \/ classified \in WifiCalls
       \/ classified \in NetworkCalls
       \/ classified \in SensorCalls
    /\ db_lock = None
    /\ incidents = <<>>
    /\ preexisting = {}
    /\ active_incidents = <<>>
    /\ now = 0
    /\ running = TRUE
    /\ current_state = [wifi |-> None, gateway |-> None]
    /\ pc = [t \in Threads |-> "idle"]
    /\ loc = [t \in Threads |-> NoLoc]
    /\ lastCall = Call(None, FALSE)

Pending(fn) == classified.fn = fn /\ classified.result = None

CheckWifiStatus ==
    /\ Pending("check_wifi_status")
    /\ classified' =
          [classified EXCEPT
              !.result = Some(check_wifi_status(classified.args[1], classified.args[2]))]
    /\ UNCHANGED <<db_lock, incidents, active_incidents, now, running, current_state, pc, loc,
                   lastCall, preexisting>>

CheckNetworkConnectivity ==
    /\ Pending("check_network_connectivity")
    /\ classified' =
          [classified EXCEPT
              !.result = Some(check_network_connectivity(classified.args[1],
                                                         classified.args[2]))]
    /\ UNCHANGED <<db_lock, incidents, active_incidents, now, running, current_state, pc, loc,
                   lastCall, preexisting>>

CheckSensorStatus ==
    /\ Pending("check_sensor_status")
    /\ classified' =
          [classified EXCEPT
              !.result = Some(check_sensor_status(classified.args[1], classified.args[2],
                                                  classified.args[3]))]
    /\ UNCHANGED <<db_lock, incidents, active_incidents, now, running, current_state, pc, loc,
                   lastCall, preexisting>>

NextClassify == CheckWifiStatus \/ CheckNetworkConnectivity \/ CheckSensorStatus

SpecClassify == InitClassify /\ [][NextClassify]_vars

----
\* Properties of SpecClassify

\* The classifier fn has returned.
Answered(fn) == classified.fn = fn /\ classified.result # None

\* d is an incident of the type and severity on exactly the targets.
IsIncident(d, ty, sev, targets) ==
    d.incident_type = ty /\ d.severity = sev /\ d.affected_targets = targets

\* C18: check_network_connectivity returns the outcome of the first rule that
\* matches: gateway unreachable, wifi_outage/critical on the gateway; else no
\* internet target reachable (also for an empty list), internet_outage/warning
\* on the internet targets; else gateway packet loss over 20,
\* wifi_degradation/warning on the gateway; else no incident.
C18_NetworkClassifier ==
    Answered("check_network_connectivity") =>
        LET g == classified.args[1]
            rs == classified.args[2]
            d == Val(classified.result)
            internet == \E i \in DOMAIN rs : rs[i].is_reachable
        IN /\ ~g.is_reachable => IsIncident(d, "wifi_outage", "critical", <<g.target>>)
           /\ (g.is_reachable /\ ~internet) =>
                 IsIncident(d, "internet_outage", "warning",
                            [i \in DOMAIN rs |-> rs[i].target])
           /\ (g.is_reachable /\ internet /\ g.packet_loss > 20) =>
                 IsIncident(d, "wifi_degradation", "warning", <<g.target>>)
           /\ (g.is_reachable /\ internet /\ g.packet_loss <= 20) => d = NoDesc

\* The gateway and every internet target were unreachable, and the answer is a
\* wifi_outage on the gateway.
C18_Witness ==
    /\ Answered("check_network_connectivity")
    /\ ~classified.args[1].is_reachable
    /\ Len(classified.args[2]) = 2
    /\ \A i \in DOMAIN classified.args[2] : ~classified.args[2][i].is_reachable
    /\ Val(classified.result).incident_type = "wifi_outage"

\* C19: check_wifi_status returns wifi_outage/critical on the interface for a
\* snapshot that is not connected; else wifi_degradation/warning when a signal
\* strength is present, whatever its value, and below the threshold; else no
\* incident.
C19_WifiClassifier ==
    Answered("check_wifi_status") =>
        LET w == classified.args[1]
            th == classified.args[2]
            d == Val(classified.result)
            weak == w.rssi # None /\ Val(w.rssi) < th
        IN /\ ~w.is_connected => IsIncident(d, "wifi_outage", "critical", <<w.interface>>)
           /\ (w.is_connected /\ weak) =>
                 IsIncident(d, "wifi_degradation", "warning", <<w.interface>>)
           /\ (w.is_connected /\ ~weak) => d = NoDesc

\* C20: check_sensor_status returns no incident for an available sensor; else
\* sensor_outage on the sensor's name, info with the network-correlated cause
\* when WiFi or gateway is down, warning with the sensor-specific cause when
\* both are up.
C20_SensorClassifier ==
    Answered("check_sensor_status") =>
        LET c == classified.args[1]
            wifi_ok == classified.args[2]
            gateway_ok == classified.args[3]
            d == Val(classified.result)
        IN /\ c.is_available => d = NoDesc
           /\ (~c.is_available /\ (~wifi_ok \/ ~gateway_ok)) =>
                 /\ IsIncident(d, "sensor_outage", "info", <<c.sensor_name>>)
                 /\ d.probable_cause =
                       Some("WiFi/network connectivity issue (correlated with WiFi/gateway outage)")
           /\ (~c.is_available /\ wifi_ok /\ gateway_ok) =>
                 /\ IsIncident(d, "sensor_outage", "warning", <<c.sensor_name>>)
                 /\ d.probable_cause =
                       Some("Sensor-specific issue (WiFi and gateway are operational)")

\* An unavailable sensor was checked with WiFi up and the gateway down, and the
\* answer is an info incident.
C20_Witness ==
    /\ Answered("check_sensor_status")
    /\ ~classified.args[1].is_available
    /\ classified.args[2]
    /\ ~classified.args[3]
    /\ Val(classified.result).severity = "info"

----
\* Incident analytics: get_incidents, analyze_incident_patterns and
\* get_problematic_periods, read-only over the stored incidents.  Tick 0 of
\* the clock is taken to be a midnight.  A quotient of true division is the
\* pair <<numerator, denominator>>, exact where Python rounds to a float.

MaxRows == 2

TicksPerHour == 3600 * TicksPerSec

\* The hours elapsed since tick 0, days not taken off.
hour_elapsed(t) == t \div TicksPerHour

\* datetime.hour
hour_of(t) == (t \div TicksPerHour) % 24

\* ORDER BY start_time; rows of one start_time come in rowid order.
RECURSIVE order_by_start_time(_, _)
order_by_start_time(db, ids) ==
    IF ids = {} THEN <<>>
    ELSE LET first == CHOOSE i \in ids : \A j \in ids :
                          \/ db[i].start_time < db[j].start_time
                          \/ db[i].start_time = db[j].start_time /\ i <= j
         IN <<first>> \o order_by_start_time(db, ids \ {first})

\* get_incidents with the end of the range left out of it.
get_incidents_before_end(db, start_time, end_time, incident_type) ==
    order_by_start_time(db,
        {i \in DOMAIN db :
            /\ start_time # None => db[i].start_time >= Val(start_time)
            /\ end_time # None => db[i].start_time < Val(end_time)
            /\ (incident_type # None /\ Val(incident_type) # "") =>
                  db[i].incident_type = Val(incident_type)})

\* Database.get_incidents(start_time, end_time, incident_type): the ids of the
\* rows returned, in the order returned.  Each filter is added `if` its
\* argument is true: not for None, nor for the empty string as a type (a
\* datetime is always true).
get_incidents(db, start_time, end_time, incident_type) ==
    order_by_start_time(db,
        {i \in DOMAIN db :
            /\ start_time # None => db[i].start_time >= Val(start_time)
            /\ end_time # None => db[i].start_time <= Val(end_time)
            /\ (incident_type # None /\ Val(incident_type) # "") =>
                  db[i].incident_type = Val(incident_type)})

\* A counter that records the key and does not count.
Incr_once(d, k) == DictSet(d, k, 1)

\* defaultdict(int): d[k] += 1 (the count is held in the entry's id field).
Incr(d, k) == DictSet(d, k, IF DictHas(d, k) THEN DictGet(d, k) + 1 ELSE 1)

RECURSIVE IncrAll(_, _)
IncrAll(d, ks) == IF ks = <<>> THEN d ELSE IncrAll(Incr(d, Head(ks)), Tail(ks))

RECURSIVE sum(_)
sum(s) == IF s = <<>> THEN 0 ELSE Head(s) + sum(Tail(s))

\* A row whose targets do not parse counted under a placeholder target.
counted_targets_placeholder(text) ==
    IF text # None /\ text[1] = "list" THEN text[2] ELSE <<"unknown">>

\* The try block: the targets a row adds to the per-target counts.  json.loads
\* raising, or its value not being iterable (TypeError), adds none.
counted_targets(text) ==
    IF json_loads(text) = None THEN <<>>
    ELSE IF text[1] = "number" THEN <<>>
    ELSE Val(json_loads(text))

\* if incident.duration_seconds: NULL and 0 are false.
has_duration(row) == row.duration_seconds # None /\ Val(row.duration_seconds) # 0

\* The for loop of analyze_incident_patterns over the rows returned.
RECURSIVE analyze_rows(_, _, _)
analyze_rows(db, ids, acc) ==
    IF ids = <<>> THEN acc
    ELSE LET row == db[Head(ids)]
         IN analyze_rows(db, Tail(ids),
               [by_type |-> Incr(acc.by_type, row.incident_type),
                by_severity |-> Incr(acc.by_severity, row.severity),
                durations |-> IF has_duration(row)
                              THEN Append(acc.durations, Val(row.duration_seconds))
                              ELSE acc.durations,
                affected_targets |->
                    IncrAll(acc.affected_targets, counted_targets(row.affected_targets))])

NoCounts == [by_type |-> <<>>, by_severity |-> <<>>, durations |-> <<>>,
             affected_targets |-> <<>>]

\* max(d.items(), key=lambda x: x[1])[0]: the first entry holding the greatest count.
max_by_count(d) ==
    d[CHOOSE i \in 1 .. Len(d) :
        /\ \A j \in 1 .. Len(d) : d[j].id <= d[i].id
        /\ \A j \in 1 .. (i - 1) : d[j].id < d[i].id].key

\* IncidentDetector.analyze_incident_patterns(start_time, end_time)
analyze_incident_patterns(db, start_time, end_time) ==
    LET ids == get_incidents(db, Some(start_time), Some(end_time), None)
        acc == analyze_rows(db, ids, NoCounts)
    IN IF ids = <<>>
       THEN [total_incidents |-> 0,
             by_type |-> <<>>,
             by_severity |-> <<>>,
             avg_duration_seconds |-> <<0, 1>>,
             total_downtime_seconds |-> 0,
             most_affected_target |-> None]
       ELSE [total_incidents |-> Len(ids),
             by_type |-> acc.by_type,
             by_severity |-> acc.by_severity,
             avg_duration_seconds |->
                 IF acc.durations # <<>>
                 THEN <<sum(acc.durations), Len(acc.durations)>>
                 ELSE <<0, 1>>,
             total_downtime_seconds |-> sum(acc.durations),
             most_affected_target |->
                 IF acc.affected_targets # <<>>
                 THEN Some(max_by_count(acc.affected_targets))
                 ELSE None,
             mtbf_seconds |-> <<end_time - start_time, TicksPerSec * Len(ids)>>]

\* IncidentDetector.get_problematic_periods(start_time, end_time)
get_problematic_periods(db, start_time, end_time) ==
    LET ids == get_incidents(db, Some(start_time), Some(end_time), None)
    IN IncrAll(<<>>, [i \in 1 .. Len(ids) |-> hour_of(db[ids[i]].start_time)])

----
\* SpecAnalytics: the analytics functions called over stores of up to MaxRows
\* rows.

\* A stored row: opened at t, and closed dur seconds later unless dur is None.
StoredRow(t, ty, sev, text, dur) ==
    [start_time |-> t,
     end_time |-> IF dur = None THEN None ELSE Some(t + Val(dur) * TicksPerSec),
     duration_seconds |-> dur,
     incident_type |-> ty,
     severity |-> sev,
     affected_targets |-> text,
     description |-> <<ty, "">>,
     probable_cause |-> None,
     is_resolved |-> dur # None]

\* Start times: a midnight, one hour later, 25 hours later.
AnalyticsTimes == {0, TicksPerHour, 25 * TicksPerHour}

\* Rows: open and closed at once on one target; closed after 10 s on two
\* targets, and on one target listed twice; rows whose text is not JSON, is
\* NULL, or is the JSON document of a number.
AnalyticsRows ==
    UNION {{StoredRow(t, "wifi_outage", "critical", json_dumps(<<"gw">>), None),
            StoredRow(t, "wifi_outage", "critical", json_dumps(<<"gw">>), Some(0)),
            StoredRow(t, "internet_outage", "warning", json_dumps(<<"t1", "t2">>), Some(10)),
            StoredRow(t, "internet_outage", "warning", json_dumps(<<"t2", "t2">>), Some(10)),
            StoredRow(t, "sensor_outage", "info", <<"text", "s1">>, Some(10)),
            StoredRow(t, "sensor_outage", "warning", None, None),
            StoredRow(t, "sensor_outage", "warning", <<"number", 1>>, Some(10))} :
                t \in AnalyticsTimes}

AnalyticsStores == UNION {[1 .. n -> AnalyticsRows] : n \in 0 .. MaxRows}

\* Ranges asked for: the first hour, the day from the first hour on, and an
\* hour holding no row.
AnalyticsRanges ==
    {<<0, TicksPerHour>>, <<TicksPerHour, 25 * TicksPerHour>>,
     <<2 * TicksPerHour, 3 * TicksPerHour>>}

InitAnalytics ==
    /\ incidents \in AnalyticsStores
    /\ preexisting = DOMAIN incidents
    /\ classified = NoCheck
    /\ db_lock = None
    /\ active_incidents = <<>>
    /\ now = 25 * TicksPerHour
    /\ running = FALSE
    /\ current_state = [wifi |-> None, gateway |-> None]
    /\ pc = [t \in Threads |-> "idle"]
    /\ loc = [t \in Threads |-> NoLoc]
    /\ lastCall = Call(None, FALSE)

AnalyzeIncidentPatterns ==
    /\ \E r \in AnalyticsRanges :
          classified' =
              [fn |-> "analyze_incident_patterns",
               args |-> r,
               result |-> Some(analyze_incident_patterns(incidents, r[1], r[2]))]
    /\ UNCHANGED <<db_lock, incidents, active_incidents, now, running, current_state, pc, loc,
                   lastCall, preexisting>>

GetProblematicPeriods ==
    /\ \E r \in AnalyticsRanges :
          classified' =
              [fn |-> "get_problematic_periods",
               args |-> r,
               result |-> Some(get_problematic_periods(incidents, r[1], r[2]))]
    /\ UNCHANGED <<db_lock, incidents, active_incidents, now, running, current_state, pc, loc,
                   lastCall, preexisting>>

\* The time bounds and types asked for: each left out or given, the type also
\* given as the empty string.
QueryBounds == {None, Some(TicksPerHour)}

QueryTypes == {None, Some(""), Some("wifi_outage")}

GetIncidents ==
    /\ \E s \in QueryBounds, e \in QueryBounds, ty \in QueryTypes :
          classified' =
              [fn |-> "get_incidents",
               args |-> <<s, e, ty>>,
               result |-> Some(get_incidents(incidents, s, e, ty))]
    /\ UNCHANGED <<db_lock, incidents, active_incidents, now, running, current_state, pc, loc,
                   lastCall, preexisting>>

NextAnalytics == AnalyzeIncidentPatterns \/ GetProblematicPeriods \/ GetIncidents

SpecAnalytics == InitAnalytics /\ [][NextAnalytics]_vars

----
\* Properties of SpecAnalytics.

\* C31: get_incidents returns each stored incident once that starts within
\* the closed interval of the bounds given, and is of the type given when one
\* is (the empty string gives none), resolved or not, and no other; the
\* start times of the list do not decrease.
C31_TimeRangeQuery ==
    Answered("get_incidents") =>
        LET res == Val(classified.result)
            s == classified.args[1]
            e == classified.args[2]
            ty == classified.args[3]
        IN /\ \A p, q \in 1 .. Len(res) : res[p] = res[q] => p = q
           /\ Range(res) =
                 {i \in DOMAIN incidents :
                     /\ s = None \/ incidents[i].start_time >= Val(s)
                     /\ e = None \/ incidents[i].start_time <= Val(e)
                     /\ ty \in {None, Some("")} \/ incidents[i].incident_type = Val(ty)}
           /\ \A p, q \in 1 .. Len(res) :
                 p < q => incidents[res[p]].start_time <= incidents[res[q]].start_time

\* A query with both bounds and a type has returned the one incident of that
\* type, unresolved, that starts at the end of the interval, and not the
\* stored incident of another type.
C31_Witness ==
    /\ Answered("get_incidents")
    /\ classified.args[1] # None /\ classified.args[2] # None
    /\ classified.args[3] = Some("wifi_outage")
    /\ Len(Val(classified.result)) = 1
    /\ incidents[Val(classified.result)[1]].start_time = Val(classified.args[2])
    /\ ~incidents[Val(classified.result)[1]].is_resolved
    /\ \E i \in DOMAIN incidents :
          /\ incidents[i].start_time = Val(classified.args[2])
          /\ incidents[i].incident_type # "wifi_outage"

\* The rows of the store that start within the range of the last call.
InRange ==
    {i \in DOMAIN incidents : /\ incidents[i].start_time >= classified.args[1]
                              /\ incidents[i].start_time <= classified.args[2]}

\* Equality of two quotients.
SameNumber(a, b) == a[1] * b[2] = b[1] * a[2]

\* The sum of the stored durations of a set of rows, NULL counting as 0.
RECURSIVE DurationSum(_)
DurationSum(S) ==
    IF S = {} THEN 0
    ELSE LET i == CHOOSE j \in S : TRUE
         IN (IF incidents[i].duration_seconds = None THEN 0
             ELSE Val(incidents[i].duration_seconds)) + DurationSum(S \ {i})

\* C23: analyze_incident_patterns reports mtbf_seconds, equal to the range's
\* length in seconds divided by the number of incidents in the range when
\* there is one, and 0 when there is none.
C23_Mtbf ==
    Answered("analyze_incident_patterns") =>
        LET res == Val(classified.result)
            n == Cardinality(InRange)
            length == classified.args[2] - classified.args[1]
        IN /\ "mtbf_seconds" \in DOMAIN res
           /\ IF n > 0
              THEN SameNumber(res.mtbf_seconds, <<length, TicksPerSec * n>>)
              ELSE SameNumber(res.mtbf_seconds, <<0, 1>>)

\* The resolved rows in the range of the last call.
ResolvedInRange == {i \in InRange : incidents[i].is_resolved}

\* C24: total_downtime_seconds is the sum of the durations of the resolved
\* incidents in range, and avg_duration_seconds is that sum divided by the
\* number of resolved incidents in range, one of duration 0 included (0 when
\* none is resolved).
C24_DurationAggregates ==
    Answered("analyze_incident_patterns") =>
        LET res == Val(classified.result)
        IN /\ res.total_downtime_seconds = DurationSum(ResolvedInRange)
           /\ IF ResolvedInRange = {}
              THEN SameNumber(res.avg_duration_seconds, <<0, 1>>)
              ELSE SameNumber(res.avg_duration_seconds,
                              <<DurationSum(ResolvedInRange), Cardinality(ResolvedInRange)>>)

\* The targets of a row whose text is the JSON document of a list.
ListedTargets(i) ==
    IF incidents[i].affected_targets # None /\ incidents[i].affected_targets[1] = "list"
    THEN incidents[i].affected_targets[2]
    ELSE <<>>

\* The targets in the order met when the rows are iterated as the store
\* returns them.
RECURSIVE Encountered(_)
Encountered(ids) ==
    IF ids = <<>> THEN <<>> ELSE ListedTargets(Head(ids)) \o Encountered(Tail(ids))

\* The number of incidents in range whose list holds the target.
IncidentsWith(t) == Cardinality({i \in InRange : t \in Range(ListedTargets(i))})

FirstMet(enc, t) == CHOOSE p \in 1 .. Len(enc) : enc[p] = t /\ \A q \in 1 .. (p - 1) : enc[q] # t

\* C25: most_affected_target is the target listed by the most incidents in
\* range, the first met in the store's order among those that tie, and none
\* when no incident in range lists a target.
C25_MostAffectedTarget ==
    Answered("analyze_incident_patterns") =>
        LET res == Val(classified.result)
            enc == Encountered(get_incidents(incidents, Some(classified.args[1]),
                                             Some(classified.args[2]), None))
        IN IF enc = <<>>
           THEN res.most_affected_target = None
           ELSE /\ res.most_affected_target # None
                /\ LET m == Val(res.most_affected_target)
                   IN /\ m \in Range(enc)
                      /\ \A t \in Range(enc) :
                            \/ IncidentsWith(t) < IncidentsWith(m)
                            \/ /\ IncidentsWith(t) = IncidentsWith(m)
                               /\ FirstMet(enc, m) <= FirstMet(enc, t)

\* The number of incidents in range that start in hour h of a day.
StartedInHour(h) ==
    Cardinality({i \in InRange : (incidents[i].start_time \div (3600 * TicksPerSec)) % 24 = h})

\* C26: get_problematic_periods returns one entry for each hour of the day in
\* which an incident in range starts, holding the number of those incidents,
\* no entry for another hour, and the counts add up to the number of incidents
\* in range.
C26_ProblematicHours ==
    Answered("get_problematic_periods") =>
        LET res == Val(classified.result)
        IN /\ \A p \in 1 .. Len(res) :
                 /\ res[p].key \in 0 .. 23
                 /\ res[p].id = StartedInHour(res[p].key)
                 /\ res[p].id > 0
                 /\ \A q \in 1 .. Len(res) : res[q].key = res[p].key => q = p
           /\ \A h \in 0 .. 23 : StartedInHour(h) > 0 => DictHas(res, h)
           /\ sum([p \in 1 .. Len(res) |-> res[p].id]) = Cardinality(InRange)

\* Two incidents in range that start in the same hour of different days have
\* been counted in one entry.
C26_Witness ==
    /\ Answered("get_problematic_periods")
    /\ \E i, j \in InRange : incidents[i].start_time # incidents[j].start_time
    /\ Len(Val(classified.result)) = 1
    /\ Val(classified.result)[1].id = 2

\* A row whose affected_targets json.loads cannot parse.
Unparseable(i) == json_loads(incidents[i].affected_targets) = None

\* The store with an empty list of targets in place of every text that does
\* not parse.
Blanked ==
    [i \in DOMAIN incidents |->
        IF Unparseable(i)
        THEN [incidents[i] EXCEPT !.affected_targets = json_dumps(<<>>)]
        ELSE incidents[i]]

\* C27: analyze_incident_patterns returns a result when rows in range hold
\* targets that do not parse; the result is the one for the same rows with no
\* targets in place of the unparseable text: every row in range is counted in
\* total_incidents, by_type and by_severity, every stored duration is in the
\* total, and the most-affected target is one listed by a row that parses.
C27_MalformedSkipped ==
    Answered("analyze_incident_patterns") =>
        LET res == Val(classified.result)
        IN /\ res = analyze_incident_patterns(Blanked, classified.args[1], classified.args[2])
           /\ res.total_incidents = Cardinality(InRange)
           /\ \A i \in InRange :
                 /\ DictHas(res.by_type, incidents[i].incident_type)
                 /\ DictGet(res.by_type, incidents[i].incident_type) =
                       Cardinality({j \in InRange :
                           incidents[j].incident_type = incidents[i].incident_type})
                 /\ DictHas(res.by_severity, incidents[i].severity)
                 /\ DictGet(res.by_severity, incidents[i].severity) =
                       Cardinality({j \in InRange :
                           incidents[j].severity = incidents[i].severity})
           /\ res.total_downtime_seconds = DurationSum(InRange)
           /\ res.most_affected_target # None =>
                 \E i \in InRange :
                     /\ ~Unparseable(i)
                     /\ Val(res.most_affected_target) \in Range(ListedTargets(i))

\* The range of the last call holds a row whose text does not parse, with a
\* duration, and a row of another type that lists targets.
C27_Witness ==
    /\ Answered("analyze_incident_patterns")
    /\ \E i, j \in InRange :
          /\ Unparseable(i)
          /\ incidents[i].duration_seconds = Some(10)
          /\ ListedTargets(j) # <<>>
          /\ incidents[j].incident_type # incidents[i].incident_type
          /\ Val(classified.result).total_downtime_seconds = 20
          /\ Val(classified.result).most_affected_target # None

\* The sum of the counts of a counter.
Total(d) == sum([p \in 1 .. Len(d) |-> d[p].id])

\* C39: the total_incidents analyze_incident_patterns returns is the number of
\* incidents in range, the sum of its by_type counts, the sum of its
\* by_severity counts, and the sum of the counts get_problematic_periods
\* returns for the same range.
C39_CountsConsistent ==
    Answered("analyze_incident_patterns") =>
        LET res == Val(classified.result)
            periods == get_problematic_periods(incidents, classified.args[1],
                                               classified.args[2])
        IN /\ res.total_incidents = Cardinality(InRange)
           /\ res.total_incidents = Total(res.by_type)
           /\ res.total_incidents = Total(res.by_severity)
           /\ res.total_incidents = Total(periods)

\* A range holds two incidents of one type and severity that start in
\* different hours.
C39_Witness ==
    /\ Answered("analyze_incident_patterns")
    /\ Val(classified.result).total_incidents = 2
    /\ Len(Val(classified.result).by_type) = 1
    /\ Len(Val(classified.result).by_severity) = 1
    /\ Len(get_problematic_periods(incidents, classified.args[1], classified.args[2])) = 2

----
\* SpecLock: two callers and the WiFi loop's periodic cleanup inside
\* Database.add_incident, update_incident and cleanup_old_data, interleaved at
\* the statements of the methods.  The clock stands at Later: a row left by an
\* earlier process is older than the retention period, a row added is not.

\* A lock taken whether or not it is held.
lock_ignored(lock) == TRUE

\* threading.Lock: __enter__ returns when the lock is not held.
lock_free(lock) == lock = None

LockThreads == Callers \cup {"wifi"}

\* Positions between __enter__ and __exit__ of `with self._lock`.
LockedLabels ==
    {"add_locked", "add_committed", "update_locked", "update_found", "update_committed",
     "cleanup_locked", "cleanup_committed"}

Inside(t) == pc[t] \in LockedLabels

InitLock ==
    /\ classified = NoCheck
    /\ db_lock = None
    /\ incidents \in InitialStores
    /\ preexisting = DOMAIN incidents
    /\ active_incidents = <<>>
    /\ now = Later
    /\ running = TRUE
    /\ current_state = [wifi |-> None, gateway |-> None]
    /\ pc = [t \in Threads |-> "idle"]
    /\ loc = [t \in Threads |-> NoLoc]
    /\ lastCall = Call(None, FALSE)

\* A caller reaches `with self._lock` of add_incident.
AddCall(t, d) ==
    /\ pc[t] = "idle"
    /\ Cardinality(DOMAIN incidents)
          + Cardinality({u \in Callers : pc[u] \in {"add_wait", "add_locked"}}) < MaxIncidents
    /\ pc' = [pc EXCEPT ![t] = "add_wait"]
    /\ loc' = [loc EXCEPT ![t] = [NoLoc EXCEPT !.desc = d, !.waited = db_lock # None]]
    /\ UNCHANGED <<db_lock, incidents, active_incidents, now, running, current_state,
                   lastCall, preexisting, classified>>

\* A caller reaches `with self._lock` of update_incident, for the row it added
\* last or, having added none, for row 1.
UpdateCall(t) ==
    /\ pc[t] = "idle"
    /\ pc' = [pc EXCEPT ![t] = "update_wait"]
    /\ loc' = [loc EXCEPT ![t].id = IF loc[t].ret # None THEN Val(loc[t].ret) ELSE 1,
                          ![t].waited = db_lock # None]
    /\ UNCHANGED <<db_lock, incidents, active_incidents, now, running, current_state,
                   lastCall, preexisting, classified>>

\* The WiFi loop computes the cutoff and reaches `with self._lock` of
\* cleanup_old_data.
CleanupCall(t) ==
    /\ pc[t] = "idle"
    /\ pc' = [pc EXCEPT ![t] = "cleanup_wait"]
    /\ loc' = [loc EXCEPT ![t] = [NoLoc EXCEPT !.start_time = now - RetentionTicks,
                                                !.waited = db_lock # None]]
    /\ UNCHANGED <<db_lock, incidents, active_incidents, now, running, current_state,
                   lastCall, preexisting, classified>>

\* self._lock.__enter__()
LockEnter(t) ==
    /\ pc[t] \in {"add_wait", "update_wait", "cleanup_wait"}
    /\ lock_free(db_lock)
    /\ db_lock' = Some(t)
    /\ pc' = [pc EXCEPT ![t] = CASE pc[t] = "add_wait" -> "add_locked"
                                 [] pc[t] = "update_wait" -> "update_locked"
                                 [] pc[t] = "cleanup_wait" -> "cleanup_locked"]
    /\ UNCHANGED <<incidents, active_incidents, now, running, current_state, loc,
                   lastCall, preexisting, classified>>

\* add_incident: session.add(incident); session.commit()
AddCommit(t) ==
    LET a == add_incident(incidents, new_incident_kw(loc[t].desc, now))
    IN /\ pc[t] = "add_locked"
       /\ incidents' = a.db
       /\ loc' = [loc EXCEPT ![t].ret = Some(a.id)]
       /\ pc' = [pc EXCEPT ![t] = "add_committed"]
       /\ UNCHANGED <<db_lock, active_incidents, now, running, current_state,
                      lastCall, preexisting, classified>>

\* update_incident: session.query(Incident).filter(Incident.id == incident_id).first()
UpdateQuery(t) ==
    /\ pc[t] = "update_locked"
    /\ loc' = [loc EXCEPT ![t].found = loc[t].id \in DOMAIN incidents]
    /\ pc' = [pc EXCEPT ![t] = "update_found"]
    /\ UNCHANGED <<db_lock, incidents, active_incidents, now, running, current_state,
                   lastCall, preexisting, classified>>

\* update_incident: if incident: setattr for each keyword, session.commit()
UpdateCommit(t) ==
    /\ pc[t] = "update_found"
    /\ incidents' =
          IF loc[t].found
          THEN update_incident(incidents, loc[t].id, resolve_kw(FALSE, 0, now))
          ELSE incidents
    /\ pc' = [pc EXCEPT ![t] = "update_committed"]
    /\ UNCHANGED <<db_lock, active_incidents, now, running, current_state, loc,
                   lastCall, preexisting, classified>>

\* cleanup_old_data: the delete of the incidents older than the cutoff, and
\* session.commit()
CleanupDelete(t) ==
    /\ pc[t] = "cleanup_locked"
    /\ incidents' = cleanup_old_data(incidents, loc[t].start_time)
    /\ preexisting' = preexisting \cap DOMAIN incidents'
    /\ pc' = [pc EXCEPT ![t] = "cleanup_committed"]
    /\ UNCHANGED <<db_lock, active_incidents, now, running, current_state, loc,
                   lastCall, classified>>

\* self._lock.__exit__(): the lock is released and the method returns.
LockExit(t) ==
    /\ pc[t] \in {"add_committed", "update_committed", "cleanup_committed"}
    /\ db_lock' = None
    /\ pc' = [pc EXCEPT ![t] = "idle"]
    /\ UNCHANGED <<incidents, active_incidents, now, running, current_state, loc,
                   lastCall, preexisting, classified>>

NextLock ==
    \/ \E t \in Callers, d \in StaleDescriptors : AddCall(t, d)
    \/ \E t \in Callers : UpdateCall(t)
    \/ CleanupCall("wifi")
    \/ \E t \in LockThreads : LockEnter(t)
    \/ \E t \in Callers : AddCommit(t)
    \/ \E t \in Callers : UpdateQuery(t)
    \/ \E t \in Callers : UpdateCommit(t)
    \/ CleanupDelete("wifi")
    \/ \E t \in LockThreads : LockExit(t)

SpecLock == InitLock /\ [][NextLock]_vars

----
\* Properties of SpecLock.

\* C30: at most one thread is between the __enter__ and the __exit__ of the
\* Database lock, and it holds the lock; the incidents table changes only in a
\* step of that thread; the row update_incident has found is there when it
\* commits; and two callers that have returned from add_incident hold
\* different ids, each of a stored row.
C30_StoreWritesExclusive ==
    /\ [](\A t \in LockThreads :
             Inside(t) => /\ db_lock = Some(t)
                          /\ \A u \in LockThreads \ {t} : ~Inside(u))
    /\ [](\A t \in Callers :
             (pc[t] = "update_found" /\ loc[t].found) => loc[t].id \in DOMAIN incidents)
    /\ [](\A a, b \in Callers :
             (/\ a # b
              /\ loc[a].desc # NoDesc /\ loc[a].ret # None
              /\ loc[b].desc # NoDesc /\ loc[b].ret # None) =>
                 /\ loc[a].ret # loc[b].ret
                 /\ Val(loc[a].ret) \in DOMAIN incidents
                 /\ Val(loc[b].ret) \in DOMAIN incidents)
    /\ [][incidents' # incidents =>
             \E t \in LockThreads :
                 /\ Inside(t)
                 /\ db_lock = Some(t)
                 /\ pc'[t] # pc[t]
                 /\ \A u \in LockThreads \ {t} : pc'[u] = pc[u] /\ ~Inside(u)]_vars

\* Both callers have returned from add_incident with different ids; one of
\* them reached the lock while it was held.
C30_Witness ==
    \E a, b \in Callers :
        /\ a # b
        /\ pc[a] = "idle" /\ pc[b] = "idle"
        /\ loc[a].desc # NoDesc /\ loc[b].desc # NoDesc
        /\ loc[a].ret # None /\ loc[b].ret # None
        /\ loc[a].ret # loc[b].ret
        /\ loc[b].waited

----
\* SpecClose: two threads inside resolve_incident, interleaved at the
\* statements of the method, for keys that process_incident calls (each taken
\* whole) have opened.

\* A thread enters resolve_incident(key).
CallResolve(t, key) ==
    /\ pc[t] \in {"idle", "done", "raised"}
    /\ loc' = [loc EXCEPT ![t] =
                 [NoLoc EXCEPT !.key = key, !.wasopen = DictHas(active_incidents, key)]]
    /\ Goto(t, "ri_test")
    /\ UNCHANGED <<db_lock, classified, incidents, active_incidents, now, running, current_state,
                   lastCall, preexisting>>

NextClose ==
    \/ \E d \in StoreDescriptors : ProcessIncident(d)
    \/ \E t \in Callers :
          \/ \E k \in StoreKeys : CallResolve(t, k)
          \/ RiTest(t)
          \/ RiGet(t)
          \/ RiQuery(t)
          \/ RiUpdate(t)
          \/ RiDel(t)

SpecClose == InitConc /\ [][NextClose]_vars

----
\* Properties of SpecClose.

\* C37: no resolve_incident call raises, whatever the interleaving of two
\* calls for one open key: both come back normally.
C37_ConcurrentCloseSafe ==
    \A t \in Callers : pc[t] # "raised"

----
\* SpecTerm: the WiFi, network and sensor check loops with the while test and
\* the body of an iteration as separate steps, so that stop() can run between
\* them, under fair scheduling: the check loops are not all held back for ever
\* while one of them can take a step (the interpreter hands the GIL on;
\* time.sleep(interval) and the probes' timeouts are finite).  The clock is not advanced: no step here
\* depends on a duration.

\* The rows the store can hold in SpecTerm.
MaxLoopRows == 1

\* The body of an iteration of loop t: probe, classification, lifecycle calls.
Body(t) ==
    /\ \E f \in BOOLEAN :
          \/ /\ t = "wifi"
             /\ \E w \in WifiSnapshots :
                   /\ current_state' = [current_state EXCEPT !.wifi = Some(w)]
                   /\ LifecycleAt("check", t, check_wifi_status(w, RssiCritical), f)
          \/ /\ t = "net"
             /\ \E g \in GatewayResults, rs \in InternetResults :
                   /\ current_state' = [current_state EXCEPT !.gateway = Some(g)]
                   /\ LifecycleAt("check", t, check_network_connectivity(g, rs), f)
          \/ /\ t = "sensor"
             /\ \E r \in SensorResults :
                   /\ current_state' = current_state
                   /\ LifecycleAt("check", t,
                                  check_sensor_status(r, current_wifi_ok(current_state),
                                                      current_gateway_ok(current_state)),
                                  f)
    /\ Cardinality(DOMAIN incidents') <= MaxLoopRows

\* A step of check loop t.
LoopStep(t) ==
    \/ LoopHead(t)
    \/ Body(t)
    \/ Handler(t)

NextTerm ==
    \/ \E t \in AllLoops : LoopStep(t)
    \/ StopLoops

SpecTerm ==
    /\ InitLoops
    /\ [][NextTerm]_vars
    /\ WF_vars(\E t \in AllLoops : LoopStep(t))

----
\* Properties of SpecTerm.

\* C36: once running is false a check loop that is between iterations does not
\* enter one, a loop enters the body of an iteration at most once more, and
\* every check loop ends up exited.
C36_LoopsTerminate ==
    /\ [][\A t \in AllLoops : (~running /\ pc[t] = "loop") => pc'[t] \in {"loop", "exited"}]_vars
    /\ [][\A t \in AllLoops : (~running /\ pc[t] # "check") => pc'[t] # "check"]_vars
    /\ (~running) ~> (\A t \in AllLoops : pc[t] = "exited")

\* stop() has run, every loop has exited, and a loop that was inside an
\* iteration when stop() ran has opened an incident since.
C36_Witness ==
    /\ ~running
    /\ \A t \in AllLoops : pc[t] = "exited"
    /\ active_incidents # <<>>

====
